---- MODULE Spec2Model ----
(***************************************************************************)
(* Model of the MyOS kernel core: the task table, the priority scheduler   *)
(* and the spinlock of src/kernel/task.c.                                  *)
(*                                                                         *)
(* Task control blocks live at addresses ("slots"): slot 0 is the static   *)
(* idle_task_tcb, slots 1..NSlots are the addresses kmalloc can return for *)
(* a task_t.  A slot keeps its bytes after kfree, as the heap does, so a   *)
(* pointer left dangling by the code reads what the memory then holds.     *)
(* Every task-level operation is one action, run by the code executing     *)
(* under current_task; the timer interrupt is the action Tick.  A          *)
(* spinlock_acquire on a held lock and a walk of a cyclic list never       *)
(* return: the caller stops there with the effects made so far.            *)
(* The counters that only grow (lock->count, cpu_time, last_run,           *)
(* context_switches) take no part in any decision of the code and are not  *)
(* carried from state to state; a call's record holds what the call itself *)
(* adds to each scheduler counter and how often it invokes context_switch. *)
(* The four task counters of scheduler_stats are part of the state.        *)
(***************************************************************************)
EXTENDS Integers, FiniteSets, Sequences, TLC

\* ---- bounds of the model ----
NSlots == 2
MaxId == 3
MaxTicks == 2
MaxSleep == 2
MaxQuantum == 1
MaxCalls == 5
NTasks == 2
Iterations == 2
ArenaWords == 128
MaxHeapOps == 6
MaxTraceOps == 6
ReqSmall == 50
ReqLarge == 100
MaxFrameOps == 6

\* ---- program constants ----
PRIORITY_IDLE == 0
PRIORITY_CRITICAL == 4
PRIORITY_NORMAL == 2
PRIORITY_HIGH == 3
DefaultQuantum == 50
TimerFrequency == 1000
NULL == -1
KERNEL_HEAP_START == 2097152
HeaderSize == 32
NoBlock == 0
UNINIT == -1
WILD == -2
PAGE_SIZE == 4096
KernelSpace == 4194304
NoFrame == -1
total_memory == 128 * 1024 * 1024

\* the heap: mm_init(KERNEL_HEAP_START, ArenaSize) with an arena of ArenaWords words
heap_start == KERNEL_HEAP_START
ArenaSize == 8 * ArenaWords
heap_end == heap_start + ArenaSize

\* size_t arithmetic is modular.  The model keeps it so with the modulus 2^30 in
\* place of the 2^64 of the build: every size the arena can hold is far below
\* both, and SIZE_MAX is the largest value a caller can pass.
SizeModulus == 2 ^ 30
SIZE_MAX == SizeModulus - 1

TASK_RUNNING == "RUNNING"
TASK_READY == "READY"
TASK_BLOCKED == "BLOCKED"
TASK_SUSPENDED == "SUSPENDED"
TASK_TERMINATED == "TERMINATED"

Slots == 0..NSlots
HeapSlots == 1..NSlots
Priorities == PRIORITY_IDLE..PRIORITY_CRITICAL
\* the priorities callers pass: three of the enum's five values
PriorityArgs == {PRIORITY_IDLE, PRIORITY_NORMAL, PRIORITY_HIGH}

VARIABLES
  tcb,                \* slot -> the task_t stored there
  task_list_head_ptr, \* head of the global task list
  current_task,       \* slot of the current task
  next_task_id,
  task_list_lock, scheduler_lock,  \* spinlock_t: [locked, owner]
  scheduler_quantum,
  ready_queues,       \* priority -> head slot or NULL
  ticks,              \* timer.c: ticks
  live,               \* heap slots holding an allocated task_t
  halted,             \* "run", "panic" (kernel_panic), "hung" (the tick handler never returns)
  spinning,           \* slots whose code is stuck forever in a spin or list loop
  selected,           \* what the last operation's schedule_next_task selected, and the
                      \* priorities of the other READY tasks at that moment
  nested,             \* <<held, wanted>>: lock acquisitions made while a lock was held
  calls,              \* number of task-level API calls made so far
  last_call,          \* the task_create or task_destroy call just made: its argument,
                      \* whether it returned, and the value it returned
  created,            \* the ids successful task_create calls have returned so far
  scheduler_stats,    \* the task counters of scheduler_stats_t
  \* a spinlock of its own protecting a shared counter, used by NTasks tasks:
  counter_lock,       \* spinlock_t: [locked, owner, count]
  counter,            \* the shared counter
  pc,                 \* task -> the statement it executes next
  local,              \* task -> the counter value it has read
  rounds,             \* task -> acquire/increment/release rounds completed
  \* the kernel heap:
  heap_mem,           \* address -> the word stored there
  heap_live,          \* pointer handed out and not freed -> the capacity handed out
  heap_twice,         \* a pointer was handed out while it was live
  heap_fault,         \* a heap call has left the arena or read a header never written
  heap_log,           \* the heap calls made so far with their results, where a trace is kept
  heap_ops,           \* number of heap calls made so far
  \* the frame allocator:
  bitmap_size,        \* bytes of the bitmap
  frame_bitmap,       \* physical_bitmap: the runs of frames whose bit is set
  next_free_frame,    \* the frame the next scan starts at
  frame_reserved,     \* the runs of frames init_paging marked and free_frame has not cleared
  frame_last,         \* the frame call just made: argument, return value, frame taken
  frame_ops           \* number of frame calls made so far

taskvars == <<tcb, task_list_head_ptr, current_task, next_task_id, task_list_lock,
              scheduler_lock, scheduler_quantum, ready_queues, ticks, live, halted,
              spinning, selected, nested, calls, last_call, created, scheduler_stats>>

lockvars == <<counter_lock, counter, pc, local, rounds>>

heapvars == <<heap_mem, heap_live, heap_twice, heap_fault, heap_log, heap_ops>>

framevars == <<bitmap_size, frame_bitmap, next_free_frame, frame_reserved, frame_last,
               frame_ops>>

vars == <<taskvars, lockvars, heapvars, framevars>>

\* memset(task, 0, sizeof(task_t))
ZeroTcb == [id |-> 0, state |-> TASK_RUNNING, priority |-> 0, next |-> NULL, prev |-> NULL,
            sleep_until |-> 0, time_slice |-> 0, time_slice_remaining |-> 0]

NoSelection == [task |-> NULL, id |-> 0, priority |-> 0, others_ready |-> {}]

\* scheduler_stats as one call changes it: what the call has added to each counter
NoCount == [total_tasks |-> 0, ready_tasks |-> 0, running_tasks |-> 0,
            blocked_tasks |-> 0, context_switches |-> 0]

\* the counters are uint32_t.  The model keeps them modular with 2^30 in place of
\* the 2^32 of the build: a counter that is decremented at 0 wraps to the largest
\* value of its type in both.
CounterModulus == 2 ^ 30

\* memset(&scheduler_stats, 0, sizeof(scheduler_stats_t)): the task counters kept in
\* the state (context_switches, which only grows, is followed call by call)
NoTasksCounted == [total_tasks |-> 0, ready_tasks |-> 0, running_tasks |-> 0,
                   blocked_tasks |-> 0]

\* no task_create or task_destroy call was the last operation
NoCall == [op |-> "none", arg |-> 0, returned |-> FALSE, ret |-> 0]

\* the tasks that exist: the idle task and the allocated task_t's
Tasks(s) == {0} \cup s.live

spinlock_init == [locked |-> 0, owner |-> 0]

\* The program state an operation starts from, with the bookkeeping of one call:
\* ctx is "task" or "irq", held the locks this call holds, stuck whether the call
\* has stopped for good.
Begin(context) ==
  [tcb |-> tcb, task_list_head_ptr |-> task_list_head_ptr, current_task |-> current_task,
   next_task_id |-> next_task_id, task_list_lock |-> task_list_lock,
   scheduler_lock |-> scheduler_lock, scheduler_quantum |-> scheduler_quantum,
   ready_queues |-> ready_queues, ticks |-> ticks, live |-> live, halted |-> halted,
   spinning |-> spinning, selected |-> NoSelection, nested |-> {},
   calls |-> IF context = "task" THEN calls + 1 ELSE calls,
   last_call |-> NoCall, created |-> created,
   ctx |-> context, held |-> {}, stuck |-> FALSE, ret |-> 0,
   stats |-> NoCount, switches |-> 0, inserted |-> {}]

Commit(s) ==
  /\ tcb' = s.tcb
  /\ task_list_head_ptr' = s.task_list_head_ptr
  /\ current_task' = s.current_task
  /\ next_task_id' = s.next_task_id
  /\ task_list_lock' = s.task_list_lock
  /\ scheduler_lock' = s.scheduler_lock
  /\ scheduler_quantum' = s.scheduler_quantum
  /\ ready_queues' = s.ready_queues
  /\ ticks' = s.ticks
  /\ live' = s.live
  /\ halted' = s.halted
  /\ spinning' = s.spinning
  /\ selected' = s.selected
  /\ nested' = s.nested
  /\ calls' = s.calls
  /\ last_call' = s.last_call
  /\ created' = s.created
  /\ scheduler_stats' = [f \in DOMAIN scheduler_stats |->
                          (scheduler_stats[f] + s.stats[f]) % CounterModulus]
  /\ UNCHANGED <<lockvars, heapvars, framevars>>

\* Sequencing: F applied to the value of v, with v evaluated once.
Then(v, F(_)) == CHOOSE r \in {F(x) : x \in {v}} : TRUE

\* A statement: it runs only while the call has not stopped.
Do(s, t) == IF s.stuck THEN s ELSE t

\* scheduler_stats.field += d
Count(s, field, d) == Do(s, [s EXCEPT !.stats[field] = @ + d])

\* The call never returns from here: a task spins (and can still be preempted),
\* the interrupt handler hangs the machine.
NeverReturns(s) ==
  Do(s, [s EXCEPT !.stuck = TRUE,
                  !.halted = IF s.ctx = "irq" THEN "hung" ELSE @,
                  !.spinning = IF s.ctx = "irq" THEN @ ELSE @ \cup {s.current_task}])

\* kernel_panic: cli; for(;;) hlt
kernel_panic(s) == Do(s, [s EXCEPT !.stuck = TRUE, !.halted = "panic"])

task_get_current_id(s) ==
  IF s.current_task = NULL THEN 0 ELSE s.tcb[s.current_task].id

\* an acquire that takes the lock whatever the flag held
TestAndSetIgnoresFlag(lock) == lock.locked \in {0, 1}

\* __sync_lock_test_and_set(&lock->locked, 1) returned 0
TestAndSetWon(lock) == lock.locked = 0

spinlock_acquire(s, L) ==
  IF s.stuck THEN s
  ELSE IF TestAndSetWon(s[L])
  THEN [s EXCEPT ![L] = [locked |-> 1, owner |-> task_get_current_id(s)],
                 !.nested = @ \cup {<<h, L>> : h \in s.held},
                 !.held = @ \cup {L}]
  ELSE NeverReturns([s EXCEPT !.nested = @ \cup {<<h, L>> : h \in s.held}])

spinlock_release(s, L) ==
  IF s.stuck \/ s[L].owner # task_get_current_id(s) THEN s
  ELSE [s EXCEPT ![L] = [locked |-> 0, owner |-> 0], !.held = @ \ {L}]

\* ---- ready queues ----
add_to_ready_queue(s, task) ==
  IF s.stuck \/ task = NULL THEN s
  ELSE IF s.tcb[task].priority > PRIORITY_CRITICAL THEN s
  ELSE LET p == s.tcb[task].priority IN
       Then(spinlock_acquire(s, "scheduler_lock"), LAMBDA s1 :
       Then(Do(s1, [s1 EXCEPT !.tcb[task].next = s1.ready_queues[p]]), LAMBDA s2 :
       Then(Do(s2, IF s2.ready_queues[p] # NULL
                   THEN [s2 EXCEPT !.tcb[s2.ready_queues[p]].prev = task]
                   ELSE s2), LAMBDA s3 :
       Then(Do(s3, [s3 EXCEPT !.ready_queues[p] = task, !.inserted = @ \cup {p}]),
            LAMBDA s4 :
       Then(Do(s4, [s4 EXCEPT !.tcb[task].prev = NULL]), LAMBDA s5 :
       spinlock_release(s5, "scheduler_lock"))))))

remove_from_ready_queue(s, task) ==
  IF s.stuck \/ task = NULL THEN s
  ELSE IF s.tcb[task].priority > PRIORITY_CRITICAL THEN s
  ELSE LET p == s.tcb[task].priority IN
       Then(spinlock_acquire(s, "scheduler_lock"), LAMBDA s1 :
       Then(Do(s1, IF s1.tcb[task].prev # NULL
                   THEN [s1 EXCEPT !.tcb[s1.tcb[task].prev].next = s1.tcb[task].next]
                   ELSE [s1 EXCEPT !.ready_queues[p] = s1.tcb[task].next]), LAMBDA s2 :
       Then(Do(s2, IF s2.tcb[task].next # NULL
                   THEN [s2 EXCEPT !.tcb[s2.tcb[task].next].prev = s2.tcb[task].prev]
                   ELSE s2), LAMBDA s3 :
       Then(Do(s3, [s3 EXCEPT !.tcb[task].next = NULL, !.tcb[task].prev = NULL]), LAMBDA s4 :
       spinlock_release(s4, "scheduler_lock")))))

scheduler_add_task(s, task) == add_to_ready_queue(s, task)

scheduler_remove_task(s, task) == remove_from_ready_queue(s, task)

\* the highest priority whose queue has a head
find_next_ready_task(s) ==
  LET nonempty == {p \in Priorities : s.ready_queues[p] # NULL}
  IN IF nonempty = {} THEN NULL
     ELSE s.ready_queues[CHOOSE p \in nonempty : \A q \in nonempty : q <= p]

\* ---- global task list ----
task_list_add(s, task) ==
  IF s.stuck \/ task = NULL THEN s
  ELSE Then(spinlock_acquire(s, "task_list_lock"), LAMBDA s1 :
       Then(Do(s1, [s1 EXCEPT !.tcb[task].next = s1.task_list_head_ptr,
                              !.tcb[task].prev = NULL]), LAMBDA s2 :
       Then(Do(s2, IF s2.task_list_head_ptr # NULL
                   THEN [s2 EXCEPT !.tcb[s2.task_list_head_ptr].prev = task]
                   ELSE s2), LAMBDA s3 :
       Then(Do(s3, [s3 EXCEPT !.task_list_head_ptr = task]), LAMBDA s4 :
       spinlock_release(s4, "task_list_lock")))))

task_list_remove(s, task) ==
  IF s.stuck \/ task = NULL THEN s
  ELSE Then(spinlock_acquire(s, "task_list_lock"), LAMBDA s1 :
       Then(Do(s1, IF s1.tcb[task].prev # NULL
                   THEN [s1 EXCEPT !.tcb[s1.tcb[task].prev].next = s1.tcb[task].next]
                   ELSE [s1 EXCEPT !.task_list_head_ptr = s1.tcb[task].next]), LAMBDA s2 :
       Then(Do(s2, IF s2.tcb[task].next # NULL
                   THEN [s2 EXCEPT !.tcb[s2.tcb[task].next].prev = s2.tcb[task].prev]
                   ELSE s2), LAMBDA s3 :
       Then(Do(s3, [s3 EXCEPT !.tcb[task].next = NULL, !.tcb[task].prev = NULL]), LAMBDA s4 :
       spinlock_release(s4, "task_list_lock")))))

\* The loop "while (task) { if (task->id == task_id) return task; task = task->next; }":
\* the slot found, NULL at the end of the list, LOOPS when the walk never ends (a walk
\* that has made more steps than there are slots is in a cycle without the id).
LOOPS == NULL - 1

RECURSIVE ListFind(_, _, _, _)
ListFind(mem, task, task_id, steps) ==
  IF task = NULL THEN NULL
  ELSE IF mem[task].id = task_id THEN task
  ELSE IF steps > NSlots THEN LOOPS
  ELSE Then(mem[task].next, LAMBDA n :
       Then(steps + 1, LAMBDA k : ListFind(mem, n, task_id, k)))

\* task_get_by_id: the state after the call, its result in .ret
task_get_by_id(s, task_id) ==
  IF s.stuck THEN s
  ELSE Then(spinlock_acquire(s, "task_list_lock"), LAMBDA s1 :
       IF s1.stuck THEN s1
       ELSE Then(ListFind(s1.tcb, s1.task_list_head_ptr, task_id, 0), LAMBDA r :
            IF r = LOOPS THEN NeverReturns(s1)
            ELSE spinlock_release([s1 EXCEPT !.ret = r], "task_list_lock")))

\* ---- scheduler ----
\* what the scheduler selected, with the priorities of the other READY tasks
Selection(s, next_task) ==
  [task |-> next_task, id |-> s.tcb[next_task].id,
   priority |-> s.tcb[next_task].priority,
   others_ready |-> {s.tcb[t].priority :
                       t \in {u \in Tasks(s) \ {next_task} : s.tcb[u].state = TASK_READY}}]

\* a switch that leaves the outgoing task RUNNING
KeepRunning(s, old_task) == s

\* if (old_task && old_task->state == TASK_RUNNING) old_task->state = TASK_READY;
Deschedule(s, old_task) ==
  IF old_task # NULL /\ s.tcb[old_task].state = TASK_RUNNING
  THEN [s EXCEPT !.tcb[old_task].state = TASK_READY]
  ELSE s

schedule_next_task(s) ==
  IF s.stuck THEN s
  ELSE Then(find_next_ready_task(s), LAMBDA next_task :
       IF next_task = NULL THEN kernel_panic(s)
       ELSE Then([s EXCEPT !.selected = Selection(s, next_task)], LAMBDA chosen :
            IF next_task = s.current_task /\ s.tcb[s.current_task].state = TASK_RUNNING
            THEN chosen
            ELSE Then(Deschedule(chosen, s.current_task), LAMBDA s1 :
                 [s1 EXCEPT !.current_task = next_task,
                            !.tcb[next_task].state = TASK_RUNNING,
                            !.stats.context_switches = @ + 1,
                            !.switches = IF s.current_task = NULL
                                            \/ s.current_task # next_task
                                         THEN @ + 1 ELSE @])))

\* current_task->time_slice_remaining = current_task->time_slice
ResetSlice(s) ==
  [s EXCEPT !.tcb[s.current_task].time_slice_remaining = s.tcb[s.current_task].time_slice]

task_yield(s) ==
  IF s.stuck \/ s.current_task = NULL THEN s
  ELSE Then(ResetSlice(s), LAMBDA s1 : schedule_next_task(s1))

\* ---- task API ----
\* a check for the idle task that lets every task pass
NoIdleCheck(s, task) == FALSE

\* task->id == 0: "Can't destroy idle task", "Can't exit idle task"
IsIdleTask(s, task) == s.tcb[task].id = 0

\* kmalloc(sizeof(task_t)) when it succeeds: first fit, the lowest free address
kmalloc_task(allocated) ==
  IF HeapSlots \ allocated = {} THEN NULL
  ELSE CHOOSE m \in HeapSlots \ allocated : \A o \in HeapSlots \ allocated : m <= o

\* a failure path that keeps the task_t allocated
LeakTask(s, task) == s

\* kfree(task)
kfree_task(s, task) == [s EXCEPT !.live = @ \ {task}]

\* an id counter that hands out the same id again
NextIdStays(id) == id

\* next_task_id++ (task_id_t is uint32_t; the ids the model follows, up to MaxId,
\* are far from its wrap at 2^32)
NextId(id) == id + 1

\* task_create: mem is what kmalloc(sizeof(task_t)) returns (a free slot, or NULL),
\* stack_ok whether kmalloc(TASK_STACK_SIZE) succeeds.
task_create(s, args_ok, priority, mem, stack_ok) ==
  IF s.stuck \/ ~args_ok \/ mem = NULL THEN s
  ELSE Then([s EXCEPT !.tcb[mem] = ZeroTcb, !.live = @ \cup {mem}], LAMBDA s1 :
       Then(spinlock_acquire(s1, "task_list_lock"), LAMBDA s2 :
       Then(Do(s2, [s2 EXCEPT !.tcb[mem].id = s2.next_task_id,
                              !.next_task_id = NextId(@)]), LAMBDA s3 :
       Then(spinlock_release(s3, "task_list_lock"), LAMBDA s4 :
       Then(Do(s4, [s4 EXCEPT !.tcb[mem].state = TASK_READY,
                              !.tcb[mem].priority = priority,
                              !.tcb[mem].time_slice = s4.scheduler_quantum,
                              !.tcb[mem].time_slice_remaining = s4.scheduler_quantum]),
            LAMBDA s5 :
       IF s5.stuck THEN s5
       ELSE IF ~stack_ok THEN kfree_task(s5, mem)
       ELSE Then(task_list_add(s5, mem), LAMBDA s6 :
            Then(scheduler_add_task(s6, mem), LAMBDA s7 :
            Then(spinlock_acquire(s7, "scheduler_lock"), LAMBDA s8 :
            Then(Count(Count(s8, "total_tasks", 1), "ready_tasks", 1), LAMBDA s8c :
            Then(spinlock_release(s8c, "scheduler_lock"), LAMBDA s9 :
            Do(s9, [s9 EXCEPT !.ret = s9.tcb[mem].id])))))))))))

task_destroy(s, task_id) ==
  Then(task_get_by_id(s, task_id), LAMBDA s1 :
  LET task == s1.ret IN
  IF s1.stuck THEN s1
  ELSE IF task = NULL THEN [s1 EXCEPT !.ret = -1]
  ELSE IF IsIdleTask(s1, task) THEN [s1 EXCEPT !.ret = -1]
  ELSE Then(scheduler_remove_task(s1, task), LAMBDA s2 :
       Then(task_list_remove(s2, task), LAMBDA s3 :
       Then(spinlock_acquire(s3, "scheduler_lock"), LAMBDA s4 :
       Then(Count(s4, "total_tasks", -1), LAMBDA s4c :
       Then(spinlock_release(s4c, "scheduler_lock"), LAMBDA s5 :
       Do(s5, [s5 EXCEPT !.live = @ \ {task}, !.spinning = @ \ {task},
                         !.ret = 0])))))))

task_suspend(s, task_id) ==
  Then(task_get_by_id(s, task_id), LAMBDA s1 :
  LET task == s1.ret IN
  IF s1.stuck THEN s1
  ELSE IF task = NULL THEN [s1 EXCEPT !.ret = -1]
  ELSE IF IsIdleTask(s1, task) THEN [s1 EXCEPT !.ret = -1]
  ELSE Then(spinlock_acquire(s1, "scheduler_lock"), LAMBDA s2 :
       Then(IF s2.stuck THEN s2
            ELSE IF s2.tcb[task].state \in {TASK_RUNNING, TASK_READY}
            THEN Count(remove_from_ready_queue(
                         [s2 EXCEPT !.tcb[task].state = TASK_SUSPENDED], task),
                       "ready_tasks", -1)
            ELSE s2, LAMBDA s3 :
       Then(spinlock_release(s3, "scheduler_lock"), LAMBDA s4 :
       IF s4.stuck THEN s4
       ELSE Then(IF task = s4.current_task THEN task_yield(s4) ELSE s4, LAMBDA s5 :
            Do(s5, [s5 EXCEPT !.ret = 0]))))))

task_resume(s, task_id) ==
  Then(task_get_by_id(s, task_id), LAMBDA s1 :
  LET task == s1.ret IN
  IF s1.stuck THEN s1
  ELSE IF task = NULL THEN s1
  ELSE IF s1.tcb[task].state # TASK_SUSPENDED THEN s1
  ELSE Then(spinlock_acquire(s1, "scheduler_lock"), LAMBDA s2 :
       Then(Do(s2, [s2 EXCEPT !.tcb[task].state = TASK_READY]), LAMBDA s3 :
       Then(add_to_ready_queue(s3, task), LAMBDA s4 :
       spinlock_release(Count(s4, "ready_tasks", 1), "scheduler_lock")))))

task_exit(s) ==
  IF s.stuck \/ s.current_task = NULL THEN s
  ELSE IF IsIdleTask(s, s.current_task) THEN s
  ELSE Then([s EXCEPT !.tcb[s.current_task].state = TASK_TERMINATED], LAMBDA s1 :
       Then(spinlock_acquire(s1, "scheduler_lock"), LAMBDA s2 :
       Then(remove_from_ready_queue(s2, s2.current_task), LAMBDA s3 :
       Then(Count(Count(s3, "ready_tasks", -1), "running_tasks", -1), LAMBDA s3c :
       Then(spinlock_release(s3c, "scheduler_lock"), LAMBDA s4 :
       schedule_next_task(s4))))))

\* milliseconds * timer_get_frequency() / 1000; the 32-bit product does not wrap for
\* the durations modelled (milliseconds <= MaxSleep)
MsToTicks(milliseconds) == (milliseconds * TimerFrequency) \div 1000

task_sleep(s, milliseconds) ==
  IF s.stuck \/ s.current_task = NULL THEN s
  ELSE IF IsIdleTask(s, s.current_task) THEN s
  ELSE Then([s EXCEPT !.tcb[s.current_task].sleep_until =
                         s.ticks + MsToTicks(milliseconds),
                      !.tcb[s.current_task].state = TASK_BLOCKED], LAMBDA s1 :
       Then(spinlock_acquire(s1, "scheduler_lock"), LAMBDA s2 :
       Then(remove_from_ready_queue(s2, s2.current_task), LAMBDA s3 :
       Then(Count(Count(s3, "ready_tasks", -1), "blocked_tasks", 1), LAMBDA s3c :
       Then(spinlock_release(s3c, "scheduler_lock"), LAMBDA s4 :
       schedule_next_task(s4))))))

task_set_priority(s, task_id, priority) ==
  Then(task_get_by_id(s, task_id), LAMBDA s1 :
  LET task == s1.ret IN
  IF s1.stuck THEN s1
  ELSE IF task = NULL \/ priority > PRIORITY_CRITICAL THEN s1
  ELSE Then(IF s1.tcb[task].state = TASK_READY
            THEN remove_from_ready_queue(s1, task) ELSE s1, LAMBDA s2 :
       Then(Do(s2, [s2 EXCEPT !.tcb[task].priority = priority]), LAMBDA s3 :
       IF s3.stuck THEN s3
       ELSE IF s3.tcb[task].state = TASK_READY THEN add_to_ready_queue(s3, task)
       ELSE s3)))

\* ---- timer tick ----
\* A scan that has made more steps than ScanLimit revisits tasks it no longer
\* changes: the loop "while (task)" of scheduler_tick never ends.
ScanLimit == (NSlots + 1) * (NSlots + 2)

WakeUp(s, task) ==
  Then([s EXCEPT !.tcb[task].sleep_until = 0, !.tcb[task].state = TASK_READY], LAMBDA s1 :
  Then(add_to_ready_queue(s1, task), LAMBDA s2 :
  Then(spinlock_acquire(s2, "scheduler_lock"), LAMBDA s3 :
  spinlock_release(Count(Count(s3, "blocked_tasks", -1), "ready_tasks", 1),
                   "scheduler_lock"))))

\* "current_ticks >= task->sleep_until" for a BLOCKED task with a deadline
SleepIsOver(t, current_ticks) ==
  t.state = TASK_BLOCKED /\ t.sleep_until > 0 /\ current_ticks >= t.sleep_until

RECURSIVE WakeSleepers(_, _, _)
WakeSleepers(s, task, steps) ==
  IF s.stuck \/ task = NULL THEN s
  ELSE IF steps > ScanLimit THEN NeverReturns(s)
  ELSE Then(IF SleepIsOver(s.tcb[task], s.ticks) THEN WakeUp(s, task) ELSE s, LAMBDA s1 :
       IF s1.stuck THEN s1
       ELSE Then(s1.tcb[task].next, LAMBDA n :
            Then(steps + 1, LAMBDA k : WakeSleepers(s1, n, k))))

\* "time slice expired or higher priority task is ready"
MustPreempt(s) ==
  LET cur == s.tcb[s.current_task]
  IN \/ cur.time_slice_remaining = 0
     \/ (s.ready_queues[PRIORITY_CRITICAL] # NULL /\ cur.priority < PRIORITY_CRITICAL)
     \/ (s.ready_queues[PRIORITY_HIGH] # NULL /\ cur.priority < PRIORITY_HIGH)

\* scheduler_tick up to its decision: the sleepers are woken and the current
\* task's remaining slice is decremented
WakeAndDecrement(s) ==
  Then(spinlock_acquire(s, "task_list_lock"), LAMBDA s1 :
  Then(WakeSleepers(s1, s1.task_list_head_ptr, 0), LAMBDA s2 :
  Then(spinlock_release(s2, "task_list_lock"), LAMBDA s3 :
  Do(s3, IF s3.tcb[s3.current_task].time_slice_remaining > 0
         THEN [s3 EXCEPT !.tcb[s3.current_task].time_slice_remaining = @ - 1]
         ELSE s3))))

scheduler_tick(s) ==
  IF s.stuck \/ s.current_task = NULL THEN s
  ELSE Then(WakeAndDecrement(s), LAMBDA s4 :
       IF s4.stuck THEN s4
       ELSE IF MustPreempt(s4)
       THEN Then(ResetSlice(s4), LAMBDA s5 : schedule_next_task(s5))
       ELSE s4)

\* The timer interrupt: timer_callback's ticks++, then scheduler_tick, the call
\* timer_callback leaves to be added ("Add scheduler tick here if needed").
timer_callback(s) ==
  Then([s EXCEPT !.ticks = @ + 1], LAMBDA s1 : scheduler_tick(s1))

\* ---- the kernel heap (src/MyOS/kernel/mm.c) ----
\* The arena is memory: 8-byte words at the addresses of HeapWords, each holding a
\* number or UNINIT while nothing has written it.  A heap_block_t is the four words
\* at a block's address, size, free, next and prev in this order; the payload
\* follows the header.  The allocator reads and writes this memory and nothing
\* else, so a header that a copy or a fill has overwritten is read back as
\* what was written there.  An access outside the arena, or a header read from words
\* never written, leaves the model (fault): what the machine does then is not
\* followed.

\* the words of the arena
HeapWords == {heap_start + 8 * i : i \in 0..(ArenaWords - 1)}

\* the state a heap call works on: the arena, the blocks handed out and not freed
\* (with the capacity each was handed out with), and the value the call returns
HeapBegin ==
  [mem |-> heap_mem, live |-> heap_live, twice |-> heap_twice, fault |-> heap_fault,
   ret |-> 0]

Fault(h) == [h EXCEPT !.fault = TRUE]

\* *(uint64_t*)addr = value
Store(h, addr, value) ==
  IF h.fault THEN h
  ELSE IF addr \notin HeapWords THEN Fault(h)
  ELSE [h EXCEPT !.mem[addr] = value]

\* the four words of the header at block can be read
Readable(h, block) ==
  \A a \in {block, block + 8, block + 16, block + 24} :
    a \in HeapWords /\ h.mem[a] # UNINIT

SizeOf(h, block) == h.mem[block]
IsFree(h, block) == h.mem[block + 8] # 0
NextOf(h, block) == h.mem[block + 16]
PrevOf(h, block) == h.mem[block + 24]

\* mm_init(heap_start_addr, heap_size): one free block over the whole arena
mm_init(heap_start_addr, heap_size) ==
  [a \in HeapWords |->
     IF a = heap_start_addr THEN heap_size - HeaderSize
     ELSE IF a = heap_start_addr + 8 THEN 1
     ELSE IF a \in {heap_start_addr + 16, heap_start_addr + 24} THEN NoBlock
     ELSE UNINIT]

\* size = (size + 7) & ~7, in size_t
AlignUp(size) == ((size + 7) % SizeModulus) - (((size + 7) % SizeModulus) % 8)

\* the loop "while (current)" of kmalloc: the first block in list order that is
\* free and large enough, NoBlock at the end of the list, WILD when the walk reads
\* a header nobody wrote or comes back to a block it has passed (nothing is written
\* in the loop, so it never ends)
RECURSIVE FindFit(_, _, _, _)
FindFit(h, current, size, seen) ==
  IF current = NoBlock THEN NoBlock
  ELSE IF ~Readable(h, current) \/ current \in seen THEN WILD
  ELSE IF IsFree(h, current) /\ SizeOf(h, current) >= size THEN current
  ELSE Then(NextOf(h, current), LAMBDA n :
       Then(seen \cup {current}, LAMBDA k : FindFit(h, n, size, k)))

\* if (current->size > size + sizeof(heap_block_t) + 8)
MustSplit(have, size) == have > (size + HeaderSize + 8) % SizeModulus

\* the split of kmalloc: a new free block after size bytes of payload
Split(h, current, size) ==
  Then(current + HeaderSize + size, LAMBDA new_block :
  Then(Store(h, new_block, SizeOf(h, current) - size - HeaderSize), LAMBDA h1 :
  Then(Store(h1, new_block + 8, 1), LAMBDA h2 :
  Then(Store(h2, new_block + 16, NextOf(h, current)), LAMBDA h3 :
  Then(Store(h3, new_block + 24, current), LAMBDA h4 :
  Then(IF NextOf(h, current) # NoBlock
       THEN Store(h4, NextOf(h, current) + 24, new_block) ELSE h4, LAMBDA h5 :
  Then(Store(h5, current + 16, new_block), LAMBDA h6 :
  Store(h6, current, size))))))))

\* the block is handed out: the caller owns ptr with the capacity the header states
\* (twice: the pointer was handed out while a caller still owned it)
HandOut(h, ptr, capacity) ==
  IF h.fault THEN h
  ELSE [h EXCEPT !.ret = ptr, !.live = (ptr :> capacity) @@ @,
                 !.twice = @ \/ ptr \in DOMAIN h.live]

kmalloc(h, size) ==
  IF h.fault THEN h
  ELSE IF size = 0 THEN [h EXCEPT !.ret = NoBlock]
  ELSE Then(AlignUp(size), LAMBDA aligned :
       Then(FindFit(h, heap_start, aligned, {}), LAMBDA current :
       IF current = WILD THEN Fault(h)
       ELSE IF current = NoBlock THEN [h EXCEPT !.ret = NoBlock]
       ELSE Then(IF MustSplit(SizeOf(h, current), aligned)
                 THEN Split(h, current, aligned) ELSE h, LAMBDA h1 :
            Then(Store(h1, current + 8, 0), LAMBDA h2 :
            IF h2.fault THEN h2
            ELSE HandOut(h2, current + HeaderSize, SizeOf(h2, current))))))

\* a free that leaves the next block alone
KeepNext(h, block) == h

\* "Coalesce with next block"
CoalesceNext(h, block) ==
  IF h.fault THEN h
  ELSE Then(NextOf(h, block), LAMBDA next :
       IF next = NoBlock THEN h
       ELSE IF ~Readable(h, next) THEN Fault(h)
       ELSE IF ~IsFree(h, next) THEN h
       ELSE Then(Store(h, block, (SizeOf(h, block) + SizeOf(h, next) + HeaderSize)
                                   % SizeModulus), LAMBDA h1 :
            Then(IF NextOf(h, next) # NoBlock
                 THEN Store(h1, NextOf(h, next) + 24, block) ELSE h1, LAMBDA h2 :
            Store(h2, block + 16, NextOf(h, next)))))

\* "Coalesce with previous block"
CoalescePrev(h, block) ==
  IF h.fault THEN h
  ELSE Then(PrevOf(h, block), LAMBDA prev :
       IF prev = NoBlock THEN h
       ELSE IF ~Readable(h, prev) THEN Fault(h)
       ELSE IF ~IsFree(h, prev) THEN h
       ELSE Then(Store(h, prev, (SizeOf(h, prev) + SizeOf(h, block) + HeaderSize)
                                  % SizeModulus), LAMBDA h1 :
            Then(IF NextOf(h, block) # NoBlock
                 THEN Store(h1, NextOf(h, block) + 24, prev) ELSE h1, LAMBDA h2 :
            Store(h2, prev + 16, NextOf(h, block)))))

kfree(h, ptr) ==
  IF h.fault \/ ptr = NoBlock THEN h
  ELSE Then(ptr - HeaderSize, LAMBDA block :
       IF block < heap_start \/ block >= heap_end THEN h
       ELSE IF ~Readable(h, block) THEN Fault(h)
       ELSE Then(Store([h EXCEPT !.live = [p \in DOMAIN @ \ {ptr} |-> @[p]]],
                       block + 8, 1), LAMBDA h1 :
            Then(CoalesceNext(h1, block), LAMBDA h2 :
            CoalescePrev(h2, block))))

\* memset(ptr, 0, n): the whole words of the range become 0; a word the range ends
\* in keeps its upper bytes
ZeroLow(word, bytes) ==
  IF word = UNINIT THEN UNINIT
  ELSE IF bytes >= 4 THEN 0
  ELSE word - (word % (2 ^ (8 * bytes)))

memset_zero(h, ptr, n) ==
  IF h.fault THEN h
  ELSE IF ptr + n > heap_end THEN Fault(h)
  ELSE [h EXCEPT !.mem =
          [a \in HeapWords |->
             IF a >= ptr /\ a + 8 <= ptr + n THEN 0
             ELSE IF a >= ptr /\ a < ptr + n THEN ZeroLow(@[a], ptr + n - a)
             ELSE @[a]]]

\* memcpy(dst, src, n): n bytes, copied word by word; a word the range ends in is
\* left partly old, which the model reads as never written
memcpy(h, dst, src, n) ==
  IF h.fault THEN h
  ELSE IF dst + n > heap_end \/ src + n > heap_end THEN Fault(h)
  ELSE [h EXCEPT !.mem =
          [a \in HeapWords |->
             IF a >= dst /\ a + 8 <= dst + n THEN @[src + (a - dst)]
             ELSE IF a >= dst /\ a < dst + n THEN UNINIT
             ELSE @[a]]]

\* size_t total_size = num * size
MulSize(num, size) == (num * size) % SizeModulus

kcalloc(h, num, size) ==
  Then(MulSize(num, size), LAMBDA total_size :
  Then(kmalloc(h, total_size), LAMBDA h1 :
  IF h1.fault \/ h1.ret = NoBlock THEN h1
  ELSE memset_zero(h1, h1.ret, total_size)))

krealloc(h, ptr, new_size) ==
  IF h.fault THEN h
  ELSE IF ptr = NoBlock THEN kmalloc(h, new_size)
  ELSE IF new_size = 0 THEN [kfree(h, ptr) EXCEPT !.ret = NoBlock]
  ELSE Then(ptr - HeaderSize, LAMBDA block :
       IF ~Readable(h, block) THEN Fault(h)
       ELSE IF SizeOf(h, block) >= new_size THEN [h EXCEPT !.ret = ptr]
       ELSE Then(kmalloc(h, new_size), LAMBDA h1 :
            IF h1.fault \/ h1.ret = NoBlock THEN h1
            ELSE Then(memcpy(h1, h1.ret, ptr,
                             IF SizeOf(h1, block) < new_size
                             THEN SizeOf(h1, block) ELSE new_size), LAMBDA h2 :
                 [kfree(h2, ptr) EXCEPT !.ret = h1.ret])))

\* the heap after mm_init(KERNEL_HEAP_START, ArenaSize), before any call
HeapInit ==
  /\ heap_mem = mm_init(heap_start, ArenaSize)
  /\ heap_live = [p \in {} |-> 0]
  /\ heap_twice = FALSE
  /\ heap_fault = FALSE
  /\ heap_log = <<>>
  /\ heap_ops = 0


\* ---- the physical frame allocator (src/MyOS/kernel/mm.c) ----
\* The bitmap has one bit for each frame: bit frame % 8 of byte frame / 8.  It is
\* kept as the set of its runs: the pairs <<first, last>> of the maximal ranges of
\* consecutive frames whose bit is set.

\* total_memory / PAGE_SIZE
FrameCount == total_memory \div PAGE_SIZE

Lowest(S) == CHOOSE x \in S : \A y \in S : x <= y
Highest(S) == CHOOSE x \in S : \A y \in S : x >= y

\* the bit of frame i is set
RunsHas(runs, i) == \E r \in runs : r[1] <= i /\ i <= r[2]

\* the run frame i lies in
RunAt(runs, i) == CHOOSE r \in runs : r[1] <= i /\ i <= r[2]

\* the bits of the frames a..b set (a <= b): the runs that meet or touch a..b
\* become one run with it
RunsWithRange(runs, a, b) ==
  Then({r \in runs : r[2] >= a - 1 /\ r[1] <= b + 1}, LAMBDA touching :
  (runs \ touching)
    \cup {<<Lowest({a} \cup {r[1] : r \in touching}),
            Highest({b} \cup {r[2] : r \in touching})>>})

\* the bit of frame i cleared: its run falls into what lies below and above i
RunsWithout(runs, i) ==
  IF ~RunsHas(runs, i) THEN runs
  ELSE Then(RunAt(runs, i), LAMBDA r :
       (runs \ {r})
         \cup (IF r[1] < i THEN {<<r[1], i - 1>>} ELSE {})
         \cup (IF i < r[2] THEN {<<i + 1, r[2]>>} ELSE {}))

\* a reservation that stops one frame early
ReservedButLast(bytes) == <<0, (bytes \div PAGE_SIZE) - 2>>

\* for (i = 0; i < 0x400000 / PAGE_SIZE; i++) set_frame_used(i)
ReservedFrames(bytes) == <<0, (bytes \div PAGE_SIZE) - 1>>

\* init_paging: the bitmap's size in bytes, the bitmap cleared over that size and
\* then the frames of the kernel's space set; next_free_frame keeps its initial 0
init_paging ==
  [bitmap_size |-> FrameCount \div 8,
   bitmap |-> RunsWithRange({}, ReservedFrames(KernelSpace)[1],
                            ReservedFrames(KernelSpace)[2]),
   next_free_frame |-> 0]

\* the state a frame call works on, and what it returns (frame: the frame it took)
FrameBegin ==
  [bitmap |-> frame_bitmap, next_free_frame |-> next_free_frame,
   reserved |-> frame_reserved, ret |-> 0, frame |-> NoFrame]

is_frame_used(f, frame) == RunsHas(f.bitmap, frame)

set_frame_used(f, frame) == [f EXCEPT !.bitmap = RunsWithRange(@, frame, frame)]

clear_frame_used(f, frame) == [f EXCEPT !.bitmap = RunsWithout(@, frame)]

\* the first frame of from..to whose bit is clear, NoFrame when there is none: from
\* itself, or the frame behind the run from lies in
FirstClear(f, from, to) ==
  IF from > to THEN NoFrame
  ELSE IF ~is_frame_used(f, from) THEN from
  ELSE IF RunAt(f.bitmap, from)[2] + 1 <= to THEN RunAt(f.bitmap, from)[2] + 1
  ELSE NoFrame

\* the last frame of from..to whose bit is clear, NoFrame when there is none
LastClear(f, from, to) ==
  IF from > to THEN NoFrame
  ELSE IF ~is_frame_used(f, to) THEN to
  ELSE IF RunAt(f.bitmap, to)[1] - 1 >= from THEN RunAt(f.bitmap, to)[1] - 1
  ELSE NoFrame

\* set_frame_used(i); next_free_frame = i + 1; return i * PAGE_SIZE;
Take(f, i) ==
  [set_frame_used(f, i) EXCEPT !.next_free_frame = i + 1, !.ret = i * PAGE_SIZE,
                               !.frame = i]

alloc_frame(f) ==
  Then(FirstClear(f, f.next_free_frame, FrameCount - 1), LAMBDA i :
  IF i # NoFrame THEN Take(f, i)
  ELSE Then(FirstClear(f, 0, f.next_free_frame - 1), LAMBDA k :
       IF k # NoFrame THEN Take(f, k)
       ELSE [f EXCEPT !.ret = 0]))

\* a free_frame that leaves next_free_frame where it is
KeepHint(f, frame) == f

\* if (frame < next_free_frame) next_free_frame = frame;
LowerHint(f, frame) ==
  IF frame < f.next_free_frame THEN [f EXCEPT !.next_free_frame = frame] ELSE f

free_frame(f, frame_addr) ==
  Then(frame_addr \div PAGE_SIZE, LAMBDA frame :
  IF frame < FrameCount
  THEN Then([clear_frame_used(f, frame) EXCEPT !.reserved = RunsWithout(@, frame)],
            LAMBDA f1 :
       LowerHint(f1, frame))
  ELSE f)

\* alloc_frame called again and again while its first loop finds a frame below
\* stop: the calls take the clear frames from next_free_frame up to stop in
\* ascending order, each setting next_free_frame behind the frame it took; the
\* last call's frame is the last clear frame below stop
alloc_frame_run(f, stop) ==
  Then(LastClear(f, f.next_free_frame, stop - 1), LAMBDA last :
  IF last = NoFrame THEN f
  ELSE [f EXCEPT !.bitmap = RunsWithRange(@, f.next_free_frame, last),
                 !.next_free_frame = last + 1, !.ret = last * PAGE_SIZE,
                 !.frame = last])

NoFrameCall == [op |-> "none", arg |-> 0, ret |-> 0, frame |-> NoFrame]

\* the state init_paging leaves
FrameInit ==
  /\ bitmap_size = init_paging.bitmap_size
  /\ frame_bitmap = init_paging.bitmap
  /\ next_free_frame = init_paging.next_free_frame
  /\ frame_reserved = init_paging.bitmap
  /\ frame_last = NoFrameCall
  /\ frame_ops = 0

\* ---- the state machine ----
\* The state task_init leaves.  scheduler_quantum is its default, or the value a
\* scheduler_set_quantum call before task_init gave it.
TaskInit ==
  /\ scheduler_quantum \in (1..MaxQuantum) \cup {DefaultQuantum}
  /\ tcb = [t \in Slots |->
              IF t = 0
              THEN [ZeroTcb EXCEPT !.state = TASK_READY, !.priority = PRIORITY_IDLE,
                                   !.time_slice = scheduler_quantum,
                                   !.time_slice_remaining = scheduler_quantum]
              ELSE ZeroTcb]
  /\ task_list_head_ptr = 0
  /\ current_task = 0
  /\ next_task_id = 1
  /\ task_list_lock = spinlock_init
  /\ scheduler_lock = spinlock_init
  /\ ready_queues = [p \in Priorities |-> IF p = PRIORITY_IDLE THEN 0 ELSE NULL]
  /\ ticks = 0
  /\ live = {}
  /\ halted = "run"
  /\ spinning = {}
  /\ selected = NoSelection
  /\ nested = {}
  /\ calls = 0
  /\ last_call = NoCall
  /\ created = {}
  /\ scheduler_stats = NoTasksCounted

\* the tasks sharing the counter, named by their task ids (0 is the idle task)
LockTasks == 0..(NTasks - 1)

\* the lock after spinlock_init with its count, the counter at 0, every task about
\* to call spinlock_acquire
LockInit ==
  /\ counter_lock = [locked |-> 0, owner |-> 0, count |-> 0]
  /\ counter = 0
  /\ pc = [t \in LockTasks |-> "test_and_set"]
  /\ local = [t \in LockTasks |-> 0]
  /\ rounds = [t \in LockTasks |-> 0]

Init == TaskInit /\ LockInit /\ HeapInit /\ FrameInit

\* code runs under current_task unless the machine is halted or that code is stuck;
\* the model follows MaxCalls API calls
TaskRuns == halted = "run" /\ current_task \notin spinning /\ calls < MaxCalls

TaskIds == 0..MaxId

\* the call op(arg) as the caller sees it: whether it came back and with what; a
\* task_create that returns an id has issued that id
Returns(op, arg, s) ==
  [s EXCEPT !.last_call = [op |-> op, arg |-> arg, returned |-> ~s.stuck,
                           ret |-> IF s.stuck THEN 0 ELSE s.ret],
            !.created = IF op = "task_create" /\ ~s.stuck /\ s.ret # 0
                        THEN @ \cup {s.ret} ELSE @]

\* one call: F applied to the state the call starts from, its result stored
Call(context, F(_)) ==
  \E s0 \in {Begin(context)} : \E s \in {F(s0)} : Commit(s)

Create ==
  /\ TaskRuns
  /\ next_task_id <= MaxId
  /\ \E args_ok \in BOOLEAN, priority \in PriorityArgs, stack_ok \in BOOLEAN,
        mem \in {kmalloc_task(live), NULL} :
       Call("task", LAMBDA s :
              Returns("task_create", 0,
                      task_create(s, args_ok, priority, mem, stack_ok)))

Destroy ==
  /\ TaskRuns
  /\ \E id \in TaskIds :
       Call("task", LAMBDA s : Returns("task_destroy", id, task_destroy(s, id)))

Suspend ==
  /\ TaskRuns
  /\ \E id \in TaskIds : Call("task", LAMBDA s : task_suspend(s, id))

Resume ==
  /\ TaskRuns
  /\ \E id \in TaskIds : Call("task", LAMBDA s : task_resume(s, id))

Exit ==
  /\ TaskRuns
  /\ Call("task", LAMBDA s : task_exit(s))

Yield ==
  /\ TaskRuns
  /\ Call("task", LAMBDA s : task_yield(s))

Sleep ==
  /\ TaskRuns
  /\ \E ms \in 0..MaxSleep : Call("task", LAMBDA s : task_sleep(s, ms))

SetPriority ==
  /\ TaskRuns
  /\ \E id \in TaskIds, priority \in PriorityArgs :
       Call("task", LAMBDA s : task_set_priority(s, id, priority))

Tick ==
  /\ halted = "run"
  /\ ticks < MaxTicks
  /\ Call("irq", LAMBDA s : timer_callback(s))

Next ==
  \/ Create \/ Destroy \/ Suspend \/ Resume \/ Exit \/ Yield \/ Sleep
  \/ SetPriority \/ Tick

Spec == Init /\ [][Next]_vars

\* ---- the spinlock under interleaving ----
\* Each task of LockTasks runs, Iterations times,
\*   spinlock_acquire(&lock); counter = counter + 1; spinlock_release(&lock);
\* and may be preempted between any two of its memory accesses.

\* while (__sync_lock_test_and_set(&lock->locked, 1)): one atomic exchange
acquire_test_and_set(t) ==
  /\ pc[t] = "test_and_set"
  /\ pc' = [pc EXCEPT ![t] = IF TestAndSetWon(counter_lock) THEN "set_owner" ELSE "spin"]
  /\ counter_lock' = [counter_lock EXCEPT !.locked = 1]
  /\ UNCHANGED <<counter, local, rounds>>
  /\ UNCHANGED <<taskvars, heapvars, framevars>>

\* while (lock->locked) pause;
acquire_spin(t) ==
  /\ pc[t] = "spin"
  /\ pc' = [pc EXCEPT ![t] = IF counter_lock.locked # 0 THEN "spin" ELSE "test_and_set"]
  /\ UNCHANGED <<counter_lock, counter, local, rounds>>
  /\ UNCHANGED <<taskvars, heapvars, framevars>>

\* lock->owner = task_get_current_id();
acquire_set_owner(t) ==
  /\ pc[t] = "set_owner"
  /\ counter_lock' = [counter_lock EXCEPT !.owner = t]
  /\ pc' = [pc EXCEPT ![t] = "count"]
  /\ UNCHANGED <<counter, local, rounds>>
  /\ UNCHANGED <<taskvars, heapvars, framevars>>

\* lock->count++;
acquire_count(t) ==
  /\ pc[t] = "count"
  /\ counter_lock' = [counter_lock EXCEPT !.count = @ + 1]
  /\ pc' = [pc EXCEPT ![t] = "read"]
  /\ UNCHANGED <<counter, local, rounds>>
  /\ UNCHANGED <<taskvars, heapvars, framevars>>

\* the protected increment: a read of the counter ...
counter_read(t) ==
  /\ pc[t] = "read"
  /\ local' = [local EXCEPT ![t] = counter]
  /\ pc' = [pc EXCEPT ![t] = "write"]
  /\ UNCHANGED <<counter_lock, counter, rounds>>
  /\ UNCHANGED <<taskvars, heapvars, framevars>>

\* ... and a write of the value read plus one
counter_write(t) ==
  /\ pc[t] = "write"
  /\ counter' = local[t] + 1
  /\ pc' = [pc EXCEPT ![t] = "check_owner"]
  /\ UNCHANGED <<counter_lock, local, rounds>>
  /\ UNCHANGED <<taskvars, heapvars, framevars>>

\* the round is over: the next one, or the end
RoundDone(t) ==
  /\ rounds' = [rounds EXCEPT ![t] = @ + 1]
  /\ pc' = [pc EXCEPT ![t] = IF rounds[t] + 1 = Iterations THEN "done" ELSE "test_and_set"]

\* if (!lock || lock->owner != task_get_current_id()) return;
release_check_owner(t) ==
  /\ pc[t] = "check_owner"
  /\ IF counter_lock.owner # t
     THEN RoundDone(t)
     ELSE pc' = [pc EXCEPT ![t] = "clear_owner"] /\ UNCHANGED rounds
  /\ UNCHANGED <<counter_lock, counter, local>>
  /\ UNCHANGED <<taskvars, heapvars, framevars>>

\* lock->owner = 0;
release_clear_owner(t) ==
  /\ pc[t] = "clear_owner"
  /\ counter_lock' = [counter_lock EXCEPT !.owner = 0]
  /\ pc' = [pc EXCEPT ![t] = "unlock"]
  /\ UNCHANGED <<counter, local, rounds>>
  /\ UNCHANGED <<taskvars, heapvars, framevars>>

\* __sync_lock_release(&lock->locked);
release_unlock(t) ==
  /\ pc[t] = "unlock"
  /\ counter_lock' = [counter_lock EXCEPT !.locked = 0]
  /\ RoundDone(t)
  /\ UNCHANGED <<counter, local>>
  /\ UNCHANGED <<taskvars, heapvars, framevars>>

NextLock ==
  \E t \in LockTasks :
    \/ acquire_test_and_set(t) \/ acquire_spin(t) \/ acquire_set_owner(t)
    \/ acquire_count(t) \/ counter_read(t) \/ counter_write(t)
    \/ release_check_owner(t) \/ release_clear_owner(t) \/ release_unlock(t)

SpecLock == Init /\ [][NextLock]_vars

\* ---- a release by a task that has not acquired ----
\* Besides its rounds a task may call spinlock_release(&lock) when it is about to
\* acquire, that is, without holding the lock; the call runs statement by statement
\* like every other and the task then goes on with its round.

\* the call is made
stray_release(t) ==
  /\ pc[t] = "test_and_set"
  /\ pc' = [pc EXCEPT ![t] = "stray_check_owner"]
  /\ UNCHANGED <<counter_lock, counter, local, rounds>>
  /\ UNCHANGED <<taskvars, heapvars, framevars>>

\* if (!lock || lock->owner != task_get_current_id()) return;
stray_check_owner(t) ==
  /\ pc[t] = "stray_check_owner"
  /\ pc' = [pc EXCEPT ![t] = IF counter_lock.owner # t THEN "test_and_set"
                             ELSE "stray_clear_owner"]
  /\ UNCHANGED <<counter_lock, counter, local, rounds>>
  /\ UNCHANGED <<taskvars, heapvars, framevars>>

\* lock->owner = 0;
stray_clear_owner(t) ==
  /\ pc[t] = "stray_clear_owner"
  /\ counter_lock' = [counter_lock EXCEPT !.owner = 0]
  /\ pc' = [pc EXCEPT ![t] = "stray_unlock"]
  /\ UNCHANGED <<counter, local, rounds>>
  /\ UNCHANGED <<taskvars, heapvars, framevars>>

\* __sync_lock_release(&lock->locked);
stray_unlock(t) ==
  /\ pc[t] = "stray_unlock"
  /\ counter_lock' = [counter_lock EXCEPT !.locked = 0]
  /\ pc' = [pc EXCEPT ![t] = "test_and_set"]
  /\ UNCHANGED <<counter, local, rounds>>
  /\ UNCHANGED <<taskvars, heapvars, framevars>>

NextRelease ==
  \E t \in LockTasks :
    \/ acquire_test_and_set(t) \/ acquire_spin(t) \/ acquire_set_owner(t)
    \/ acquire_count(t) \/ counter_read(t) \/ counter_write(t)
    \/ release_check_owner(t) \/ release_clear_owner(t) \/ release_unlock(t)
    \/ stray_release(t) \/ stray_check_owner(t) \/ stray_clear_owner(t)
    \/ stray_unlock(t)

SpecRelease == Init /\ [][NextRelease]_vars

\* ---- spinlock_try_acquire ----
\* A task may begin a round with spinlock_try_acquire(&lock) in place of
\* spinlock_acquire: when the call returns true it goes on with the round as the
\* holder, when it returns false it is again about to acquire.

\* an exchange that also counts an acquisition
ExchangeCounts(lock) == [lock EXCEPT !.locked = 1, !.count = @ + 1]

\* __sync_lock_test_and_set(&lock->locked, 1): what it leaves in the lock
Exchange(lock) == [lock EXCEPT !.locked = 1]

\* if (__sync_lock_test_and_set(&lock->locked, 1) == 0)
try_test_and_set(t) ==
  /\ pc[t] = "test_and_set"
  /\ pc' = [pc EXCEPT ![t] = IF TestAndSetWon(counter_lock) THEN "try_set_owner"
                             ELSE "try_false"]
  /\ counter_lock' = Exchange(counter_lock)
  /\ UNCHANGED <<counter, local, rounds>>
  /\ UNCHANGED <<taskvars, heapvars, framevars>>

\* lock->owner = task_get_current_id();
try_set_owner(t) ==
  /\ pc[t] = "try_set_owner"
  /\ counter_lock' = [counter_lock EXCEPT !.owner = t]
  /\ pc' = [pc EXCEPT ![t] = "try_count"]
  /\ UNCHANGED <<counter, local, rounds>>
  /\ UNCHANGED <<taskvars, heapvars, framevars>>

\* lock->count++; return true;
try_count(t) ==
  /\ pc[t] = "try_count"
  /\ counter_lock' = [counter_lock EXCEPT !.count = @ + 1]
  /\ pc' = [pc EXCEPT ![t] = "try_true"]
  /\ UNCHANGED <<counter, local, rounds>>
  /\ UNCHANGED <<taskvars, heapvars, framevars>>

\* the caller has its answer: it enters the protected increment, or starts over
try_returned(t) ==
  /\ pc[t] \in {"try_true", "try_false"}
  /\ pc' = [pc EXCEPT ![t] = IF pc[t] = "try_true" THEN "read" ELSE "test_and_set"]
  /\ UNCHANGED <<counter_lock, counter, local, rounds>>
  /\ UNCHANGED <<taskvars, heapvars, framevars>>

NextTry ==
  \E t \in LockTasks :
    \/ acquire_test_and_set(t) \/ acquire_spin(t) \/ acquire_set_owner(t)
    \/ acquire_count(t) \/ counter_read(t) \/ counter_write(t)
    \/ release_check_owner(t) \/ release_clear_owner(t) \/ release_unlock(t)
    \/ try_test_and_set(t) \/ try_set_owner(t) \/ try_count(t) \/ try_returned(t)

SpecTry == Init /\ [][NextTry]_vars

\* ---- the heap's calls ----
\* the sizes kmalloc is asked for: an ordinary one, most of the arena, and the
\* largest size_t
RequestSizes == {ReqSmall, ArenaSize - 3 * HeaderSize, SIZE_MAX}

\* the sizes krealloc is asked for
ReallocSizes == {0, ReqLarge, SIZE_MAX}

\* kcalloc arguments: an ordinary product, the largest size_t, and a product that
\* does not fit size_t (64 bytes more than SizeModulus)
CallocArgs == {<<1, ReqSmall>>, <<1, SIZE_MAX>>, <<64, (SizeModulus \div 64) + 1>>}

\* the pointers a caller holds: the live ones
LivePointers == DOMAIN heap_live

HeapRuns == ~heap_fault /\ heap_ops < MaxHeapOps

\* the block behind the block a call returned: whether it is free, and its size
BlockAfter(h) ==
  IF h.ret = NoBlock \/ ~Readable(h, h.ret - HeaderSize)
  THEN [free |-> FALSE, size |-> 0]
  ELSE Then(NextOf(h, h.ret - HeaderSize), LAMBDA n :
       IF n # NoBlock /\ Readable(h, n) /\ IsFree(h, n)
       THEN [free |-> TRUE, size |-> SizeOf(h, n)]
       ELSE [free |-> FALSE, size |-> 0])

\* one heap call: its effect stored and, where a trace is kept, the call appended
\* to it with what it returned, the capacity handed out and the block behind it
HeapCommit(h, op, arg, traced) ==
  /\ heap_mem' = h.mem
  /\ heap_live' = h.live
  /\ heap_twice' = h.twice
  /\ heap_fault' = h.fault
  /\ heap_log' = IF traced
                 THEN Append(heap_log,
                             [op |-> op, arg |-> arg, ret |-> h.ret,
                              capacity |-> IF h.ret \in DOMAIN h.live
                                           THEN h.live[h.ret] ELSE 0,
                              after |-> BlockAfter(h)])
                 ELSE heap_log
  /\ heap_ops' = heap_ops + 1
  /\ UNCHANGED <<taskvars, lockvars, framevars>>

Kmalloc ==
  /\ HeapRuns
  /\ \E size \in RequestSizes :
       \E h \in {kmalloc(HeapBegin, size)} : HeapCommit(h, "kmalloc", size, FALSE)

Kfree ==
  /\ HeapRuns
  /\ \E ptr \in LivePointers :
       \E h \in {kfree(HeapBegin, ptr)} : HeapCommit(h, "kfree", ptr, FALSE)

Kcalloc ==
  /\ HeapRuns
  /\ \E args \in CallocArgs :
       \E h \in {kcalloc(HeapBegin, args[1], args[2])} :
         HeapCommit(h, "kcalloc", args, FALSE)

Krealloc ==
  /\ HeapRuns
  /\ \E ptr \in LivePointers \cup {NoBlock}, new_size \in ReallocSizes :
       \E h \in {krealloc(HeapBegin, ptr, new_size)} :
         HeapCommit(h, "krealloc", <<ptr, new_size>>, FALSE)

NextHeap == Kmalloc \/ Kfree \/ Kcalloc \/ Krealloc

\* the heap is used on its own: the scheduler keeps its default quantum
HeapOnly == Init /\ scheduler_quantum = DefaultQuantum

SpecHeap == HeapOnly /\ [][NextHeap]_vars

\* ---- kmalloc and kfree alone, with the calls made kept as a trace ----
TraceSizes == {0, ReqSmall, ReqLarge, SIZE_MAX}

TraceRuns == ~heap_fault /\ heap_ops < MaxTraceOps

TracedKmalloc ==
  /\ TraceRuns
  /\ \E size \in TraceSizes :
       \E h \in {kmalloc(HeapBegin, size)} : HeapCommit(h, "kmalloc", size, TRUE)

TracedKfree ==
  /\ TraceRuns
  /\ \E ptr \in LivePointers :
       \E h \in {kfree(HeapBegin, ptr)} : HeapCommit(h, "kfree", ptr, TRUE)

NextHeapTrace == TracedKmalloc \/ TracedKfree

SpecHeapTrace == HeapOnly /\ [][NextHeapTrace]_vars

\* ---- the frame allocator's calls ----
\* the addresses free_frame is called with: frame 0, the middle of frame 1, the
\* first two frames behind the kernel's space, the last frame, and the first
\* address behind the memory
FreeArgs ==
  {0, PAGE_SIZE + 1, KernelSpace, KernelSpace + PAGE_SIZE, total_memory - PAGE_SIZE,
   total_memory}

FrameRuns == frame_ops < MaxFrameOps

FrameCommit(f, op, arg) ==
  /\ frame_bitmap' = f.bitmap
  /\ next_free_frame' = f.next_free_frame
  /\ frame_reserved' = f.reserved
  /\ frame_last' = [op |-> op, arg |-> arg, ret |-> f.ret, frame |-> f.frame]
  /\ frame_ops' = frame_ops + 1
  /\ UNCHANGED <<bitmap_size, taskvars, lockvars, heapvars>>

AllocFrame ==
  /\ FrameRuns
  /\ \E f \in {alloc_frame(FrameBegin)} : FrameCommit(f, "alloc_frame", 0)

FreeFrame ==
  /\ FrameRuns
  /\ \E frame_addr \in FreeArgs :
       \E f \in {free_frame(FrameBegin, frame_addr)} :
         FrameCommit(f, "free_frame", frame_addr)

\* a long run of alloc_frame calls, up to the last frame or to the one before it
AllocFrameRun ==
  /\ FrameRuns
  /\ \E stop \in {FrameCount - 1, FrameCount} :
       \E f \in {alloc_frame_run(FrameBegin, stop)} :
         /\ f.frame # NoFrame
         /\ FrameCommit(f, "alloc_frame_run", stop)

NextFrame == AllocFrame \/ FreeFrame \/ AllocFrameRun

SpecFrame == HeapOnly /\ [][NextFrame]_vars

\* ---- reading the lists of a state ----
ThisState ==
  [tcb |-> tcb, task_list_head_ptr |-> task_list_head_ptr, ready_queues |-> ready_queues,
   live |-> live]

\* the tasks that exist now
LiveTasks == Tasks(ThisState)

RECURSIVE Reaches(_, _, _, _)
Reaches(mem, from, task, steps) ==
  IF from = NULL \/ steps > NSlots THEN FALSE
  ELSE IF from = task THEN TRUE
  ELSE Reaches(mem, mem[from].next, task, steps + 1)

\* task is linked into the ready queue of priority q
Linked(q, task) == Reaches(tcb, ready_queues[q], task, 0)

QueuesOf(task) == {q \in Priorities : Linked(q, task)}

\* C1: whenever schedule_next_task selects a task, its priority is at least the
\* priority of every other task that is READY at that moment.
C1_SelectedHasTopPriority ==
  selected.task # NULL => \A p \in selected.others_ready : selected.priority >= p

\* C2: a task is linked into a ready queue iff its state is READY, and then into
\* exactly one queue, the one of its own priority.
C2_LinkedIffReady ==
  \A t \in LiveTasks :
    /\ (QueuesOf(t) # {}) <=> (tcb[t].state = TASK_READY)
    /\ tcb[t].state = TASK_READY => QueuesOf(t) = {tcb[t].priority}

\* C3: the global task list holds the idle task and every task created and not
\* destroyed: task_get_by_id finds every live task by its id.
C3_ListHoldsLiveTasks ==
  \A t \in LiveTasks : ListFind(tcb, task_list_head_ptr, tcb[t].id, 0) = t

\* C4: the idle task is never selected while another task is READY.
C4_IdleExclusion ==
  selected.task = 0 => selected.others_ready = {}

\* C5: the idle task stays linked in a ready queue and the scheduler never reaches
\* the "No ready tasks" halt.
C5_IdleAlwaysReady ==
  /\ QueuesOf(0) # {}
  /\ halted # "panic"

\* C6: a task put to sleep with deadline D is neither READY nor RUNNING while
\* ticks < D.
C6_NoEarlyWake ==
  \A t \in LiveTasks :
    ticks < tcb[t].sleep_until => tcb[t].state \notin {TASK_READY, TASK_RUNNING}

\* C7: the first scheduler_tick that runs at or after a sleeper's deadline returns
\* the sleeper to READY (from where the same tick may schedule it) and links it
\* into the queue of its priority, a sleep of 0 ms started at tick 0 included.
C7_WokenAtDeadline ==
  [][ticks' = ticks + 1 =>
       \A t \in LiveTasks :
         (tcb[t].state = TASK_BLOCKED /\ ticks' >= tcb[t].sleep_until) =>
           /\ tcb'[t].state \in {TASK_READY, TASK_RUNNING}
           /\ Reaches(tcb', ready_queues'[tcb'[t].priority], t, 0)]_vars

\* the state changes a task may make in one operation
AllowedChange(from, to, deadline_over) ==
  \/ from = to
  \/ from = TASK_READY /\ to \in {TASK_RUNNING, TASK_SUSPENDED}
  \/ from = TASK_RUNNING /\ to \in {TASK_READY, TASK_BLOCKED, TASK_SUSPENDED, TASK_TERMINATED}
  \/ from = TASK_BLOCKED /\ to \in {TASK_READY, TASK_RUNNING} /\ deadline_over
  \/ from = TASK_SUSPENDED /\ to = TASK_READY

\* C8: a task's state changes only along the documented transitions; TERMINATED
\* is left only by destroy.
C8_OnlyDocumentedTransitions ==
  [][\A t \in LiveTasks :
       (t \in ({0} \cup live') /\ tcb'[t].id = tcb[t].id) =>
         AllowedChange(tcb[t].state, tcb'[t].state,
                       ticks' = ticks + 1 /\ ticks' >= tcb[t].sleep_until)]_vars

\* between the winning test-and-set of spinlock_acquire and the end of spinlock_release
InCritical(t) ==
  pc[t] \in {"set_owner", "count", "read", "write", "check_owner", "clear_owner", "unlock"}

\* the increments task t has performed: one per finished round, and the one of the
\* round it is in once the write is made
IncrementsOf(t) ==
  rounds[t] + (IF pc[t] \in {"check_owner", "clear_owner", "unlock"} THEN 1 ELSE 0)

RECURSIVE TotalIncrements(_)
TotalIncrements(T) ==
  IF T = {} THEN 0
  ELSE LET t == CHOOSE x \in T : TRUE IN IncrementsOf(t) + TotalIncrements(T \ {t})

\* C9: under every interleaving of the tasks' steps at most one task is between
\* acquire and release, the counter equals the number of increments performed, and
\* when all tasks are done it equals NTasks * Iterations.
C9_LockExclusion ==
  /\ Cardinality({t \in LockTasks : InCritical(t)}) <= 1
  /\ counter = TotalIncrements(LockTasks)
  /\ (\A t \in LockTasks : pc[t] = "done") => counter = NTasks * Iterations

\* every task has finished all its rounds, and each acquire was counted
C9_AllRoundsDone ==
  /\ \A t \in LockTasks : pc[t] = "done" /\ rounds[t] = Iterations
  /\ counter = NTasks * Iterations
  /\ counter_lock = [locked |-> 0, owner |-> 0, count |-> NTasks * Iterations]

\* C10: no lock is acquired while the caller holds a lock; in particular
\* task_list_lock and scheduler_lock are never held together.
C10_NoNestedLocks == nested = {}

\* the slots a walk along next visits from a head, in order (a walk longer than
\* the number of slots is in a cycle and is cut there)
RECURSIVE Walk(_, _, _)
Walk(mem, from, steps) ==
  IF from = NULL \/ steps > NSlots THEN <<>>
  ELSE <<from>> \o Walk(mem, mem[from].next, steps + 1)

Without(order, task) == SelectSeq(order, LAMBDA x : x # task)

\* the live task a task_destroy argument names
TaskWithId(task_id) == {t \in live : tcb[t].id = task_id}

\* C11: a task_destroy(id) that returns, for an existing task with id # 0, takes
\* exactly that task out of the global list and out of every ready queue and leaves
\* every other task where it was, in the same order; task_destroy(0) returns -1 and
\* changes nothing.
C11_DestroyRemovesOnlyTarget ==
  [][(last_call'.op = "task_destroy" /\ last_call'.returned) =>
       /\ last_call'.arg # 0 =>
            \A t \in TaskWithId(last_call'.arg) :
              /\ Walk(tcb', task_list_head_ptr', 0)
                   = Without(Walk(tcb, task_list_head_ptr, 0), t)
              /\ \A q \in Priorities :
                   Walk(tcb', ready_queues'[q], 0) = Without(Walk(tcb, ready_queues[q], 0), t)
       /\ last_call'.arg = 0 =>
            /\ last_call'.ret = -1
            /\ UNCHANGED <<tcb, task_list_head_ptr, ready_queues, live, current_task>>]_vars

ThisHeap == HeapBegin

\* the blocks of the list from a block on, as far as headers can be read (a walk
\* that comes back to a block it has passed is in a cycle and is cut there, the
\* block it came back to listed once more)
RECURSIVE BlocksFrom(_, _, _)
BlocksFrom(h, block, seen) ==
  IF block = NoBlock \/ ~Readable(h, block) THEN <<>>
  ELSE IF block \in seen THEN <<block>>
  ELSE <<block>> \o BlocksFrom(h, NextOf(h, block), seen \cup {block})

BlockList == BlocksFrom(ThisHeap, heap_start, {})

\* the walk along the list meets only headers that were written
RECURSIVE WalkIsKnown(_, _, _)
WalkIsKnown(h, block, seen) ==
  IF block = NoBlock \/ block \in seen THEN TRUE
  ELSE IF ~Readable(h, block) THEN FALSE
  ELSE WalkIsKnown(h, NextOf(h, block), seen \cup {block})

\* a heap call has completed and every header of the list holds words written by
\* the allocator (what a header of words nobody wrote would be read as is left open)
HeapKnown == ~heap_fault /\ WalkIsKnown(ThisHeap, heap_start, {})

\* where the payload of a block ends
EndOf(h, block) == block + HeaderSize + SizeOf(h, block)

RECURSIVE SumOver(_, _)
SumOver(h, blocks) ==
  IF blocks = <<>> THEN 0
  ELSE SizeOf(h, Head(blocks)) + HeaderSize + SumOver(h, Tail(blocks))

\* C12: the payload ranges of the live allocations, each with the capacity it was
\* handed out with, lie inside the arena and are pairwise disjoint, and no pointer
\* is handed out while it is live.
C12_LiveRangesDisjoint ==
  ~heap_fault =>
    /\ ~heap_twice
    /\ \A p \in DOMAIN heap_live :
         /\ heap_start <= p /\ p + heap_live[p] <= heap_end
         /\ \A q \in DOMAIN heap_live \ {p} :
              p + heap_live[p] <= q \/ q + heap_live[q] <= p

\* C13: the block list from the arena base is contiguous and covers the arena
\* exactly: every block's successor is the header at the end of its payload, the
\* last block ends at the end of the arena, and the sizes and headers add up to
\* the arena size.
C13_BlocksCoverArena ==
  HeapKnown =>
    /\ BlockList # <<>> /\ Head(BlockList) = heap_start
    /\ \A i \in 1..(Len(BlockList) - 1) :
         /\ NextOf(ThisHeap, BlockList[i]) = EndOf(ThisHeap, BlockList[i])
         /\ BlockList[i + 1] = EndOf(ThisHeap, BlockList[i])
    /\ NextOf(ThisHeap, BlockList[Len(BlockList)]) = NoBlock
    /\ EndOf(ThisHeap, BlockList[Len(BlockList)]) = heap_end
    /\ SumOver(ThisHeap, BlockList) = ArenaSize

\* C14: after every completed heap call no two blocks adjacent in the block list
\* are both free.
C14_NoAdjacentFreeBlocks ==
  HeapKnown =>
    \A i \in 1..(Len(BlockList) - 1) :
      ~(IsFree(ThisHeap, BlockList[i]) /\ IsFree(ThisHeap, BlockList[i + 1]))

\* ---- first fit ----
\* size rounded up to a multiple of 8, as a number
RoundedUp(size) == 8 * ((size + 7) \div 8)

\* the places in the block list of the free blocks with room for need bytes
FitsIn(need) ==
  {i \in 1..Len(BlockList) :
     IsFree(ThisHeap, BlockList[i]) /\ SizeOf(ThisHeap, BlockList[i]) >= need}

\* the call a step adds to the trace, if it adds one
CallMade ==
  IF Len(heap_log') = Len(heap_log) + 1 THEN {heap_log'[Len(heap_log')]} ELSE {}

\* C15: kmalloc(size) with size >= 1 returns the payload of the first block in list
\* order that is free and has capacity >= size rounded up to 8, and fails when there
\* is none; and after kmalloc(100), kmalloc(100) and a free of the first, kmalloc(50)
\* returns the address of the first allocation.
C15_FirstFit ==
  [][/\ \A e \in CallMade :
          (e.op = "kmalloc" /\ e.arg >= 1 /\ HeapKnown) =>
            /\ FitsIn(RoundedUp(e.arg)) = {} => e.ret = NoBlock
            /\ FitsIn(RoundedUp(e.arg)) # {} =>
                 \E i \in FitsIn(RoundedUp(e.arg)) :
                   /\ \A j \in FitsIn(RoundedUp(e.arg)) : i <= j
                   /\ e.ret = BlockList[i] + HeaderSize
     /\ ( /\ Len(heap_log') = 4
          /\ heap_log = SubSeq(heap_log', 1, 3)
          /\ heap_log'[1].op = "kmalloc" /\ heap_log'[1].arg = ReqLarge
          /\ heap_log'[2].op = "kmalloc" /\ heap_log'[2].arg = ReqLarge
          /\ heap_log'[3].op = "kfree" /\ heap_log'[3].arg = heap_log'[1].ret
          /\ heap_log'[4].op = "kmalloc" /\ heap_log'[4].arg = ReqSmall )
        => (heap_log'[4].ret = heap_log'[1].ret /\ heap_log'[1].ret # NoBlock)]_vars

\* the same for the sizes whose rounding fits size_t
C15_FirstFitUnwrapped ==
  [][\A e \in CallMade :
       (e.op = "kmalloc" /\ e.arg >= 1 /\ e.arg <= SIZE_MAX - 7 /\ HeapKnown) =>
         /\ FitsIn(RoundedUp(e.arg)) = {} => e.ret = NoBlock
         /\ FitsIn(RoundedUp(e.arg)) # {} =>
              \E i \in FitsIn(RoundedUp(e.arg)) :
                /\ \A j \in FitsIn(RoundedUp(e.arg)) : i <= j
                /\ e.ret = BlockList[i] + HeaderSize]_vars

\* ---- coalescing ----
\* the trace is a run of kmalloc calls followed by exactly two kfree calls
TwoFreesLast ==
  /\ Len(heap_log) >= 5
  /\ \A n \in 1..Len(heap_log) :
       heap_log[n].op = (IF n >= Len(heap_log) - 1 THEN "kfree" ELSE "kmalloc")

\* calls i < j < k handed out three adjacent blocks of equal size, and the two
\* kfree calls freed the last two of them (in either order)
ThreeAdjacent(i, j, k) ==
  /\ TwoFreesLast
  /\ i < j /\ j < k /\ k <= Len(heap_log) - 2
  /\ heap_log[i].ret # NoBlock /\ heap_log[j].ret # NoBlock /\ heap_log[k].ret # NoBlock
  /\ heap_log[j].capacity = heap_log[i].capacity
  /\ heap_log[k].capacity = heap_log[i].capacity
  /\ heap_log[j].ret = heap_log[i].ret + heap_log[i].capacity + HeaderSize
  /\ heap_log[k].ret = heap_log[j].ret + heap_log[j].capacity + HeaderSize
  /\ {heap_log[Len(heap_log) - 1].arg, heap_log[Len(heap_log)].arg}
       = {heap_log[j].ret, heap_log[k].ret}

Triples ==
  {t \in (1..Len(heap_log)) \X (1..Len(heap_log)) \X (1..Len(heap_log)) :
     ThreeAdjacent(t[1], t[2], t[3])}

\* the block behind the block of call k is free when the two frees are made: it was
\* free when call k returned and no later call was given it
RestFree(k) ==
  /\ heap_log[k].after.free
  /\ \A n \in (k + 1)..Len(heap_log) :
       ~(heap_log[n].op = "kmalloc"
         /\ heap_log[n].ret = heap_log[k].ret + heap_log[k].capacity + HeaderSize)

\* the header of the block whose payload is ptr
HeaderOf(ptr) == ptr - HeaderSize

\* C16 as stated: after three adjacent blocks of equal size are allocated and the
\* last two are freed in either order, one free block stands in their place and its
\* size is the two freed sizes plus one header.
C16_TwoFreedPlusHeader ==
  \A t \in Triples :
    /\ Readable(ThisHeap, HeaderOf(heap_log[t[2]].ret))
    /\ IsFree(ThisHeap, HeaderOf(heap_log[t[2]].ret))
    /\ \E n \in 1..Len(BlockList) : BlockList[n] = HeaderOf(heap_log[t[2]].ret)
    /\ \A n \in 1..Len(BlockList) : BlockList[n] # HeaderOf(heap_log[t[3]].ret)
    /\ SizeOf(ThisHeap, HeaderOf(heap_log[t[2]].ret))
         = 2 * heap_log[t[2]].capacity + HeaderSize

\* C16: after three adjacent blocks of equal size are allocated and the last two
\* are freed in either order, one free block stands in their place; its size is
\* the two freed sizes plus one header when the block behind the third is
\* allocated or absent, and that plus the size of the block behind the third and
\* one more header when that block is free.
C16_TwoFreedPlusRest ==
  \A t \in Triples :
    /\ Readable(ThisHeap, HeaderOf(heap_log[t[2]].ret))
    /\ IsFree(ThisHeap, HeaderOf(heap_log[t[2]].ret))
    /\ \E n \in 1..Len(BlockList) : BlockList[n] = HeaderOf(heap_log[t[2]].ret)
    /\ \A n \in 1..Len(BlockList) : BlockList[n] # HeaderOf(heap_log[t[3]].ret)
    /\ SizeOf(ThisHeap, HeaderOf(heap_log[t[2]].ret))
         = 2 * heap_log[t[2]].capacity + HeaderSize
           + (IF RestFree(t[3]) THEN heap_log[t[3]].after.size + HeaderSize ELSE 0)

\* three blocks of 104 bytes, the rest of the arena free behind them, the third
\* freed and then the second
C16_ThirdThenSecondFreed ==
  /\ Len(heap_log) = 5
  /\ <<1, 2, 3>> \in Triples
  /\ heap_log[1].capacity = RoundedUp(ReqLarge)
  /\ RestFree(3)
  /\ heap_log[4].arg = heap_log[3].ret
  /\ heap_log[5].arg = heap_log[2].ret

\* three adjacent blocks, a fourth allocated behind them, the second freed and then
\* the third
C16_FourthAllocated ==
  /\ Len(heap_log) = 6
  /\ <<1, 2, 3>> \in Triples
  /\ ~RestFree(3)
  /\ heap_log[5].arg = heap_log[2].ret
  /\ heap_log[6].arg = heap_log[3].ret

\* ---- frames and their owners ----
\* frame i has an owner: alloc_frame set its bit (init_paging did not, or the bit
\* was cleared since) and no free_frame has cleared it since
Owned(i) == RunsHas(frame_bitmap, i) /\ ~RunsHas(frame_reserved, i)

\* the step is a call of alloc_frame
AllocFrameCalled == frame_ops' = frame_ops + 1 /\ frame_last'.op = "alloc_frame"

\* C17: alloc_frame never returns the address of a frame that an earlier
\* alloc_frame returned and that has not been freed since (the value returned is a
\* multiple of PAGE_SIZE, so it is the address of the frame ret / PAGE_SIZE alone).
C17_NoFrameReturnedTwice ==
  [][AllocFrameCalled => ~Owned(frame_last'.ret \div PAGE_SIZE)]_vars

\* the frame a call of alloc_frame takes is one whose bit was clear
C17_TakenFrameWasClear ==
  [][(AllocFrameCalled /\ frame_last'.frame # NoFrame) =>
       /\ ~RunsHas(frame_bitmap, frame_last'.frame)
       /\ RunsHas(frame_bitmap', frame_last'.frame)]_vars

\* ---- the allocator's arithmetic ----
\* C18: init_paging sets the bitmap size to 4096 bytes and marks the frames
\* 0..1023 used and no others, and the first alloc_frame after it returns frame
\* 1024, address 0x400000 = 4194304.
C18_InitPagingArithmetic ==
  /\ bitmap_size = 4096
  /\ frame_ops = 0 =>
       \A i \in 0..(FrameCount - 1) : RunsHas(frame_bitmap, i) <=> i <= 1023
  /\ (frame_ops = 1 /\ frame_last.op = "alloc_frame") =>
       /\ frame_last.frame = 1024
       /\ frame_last.ret = 4194304
       /\ RunsHas(frame_bitmap, 1024)

\* the first call after init_paging was alloc_frame and it has returned
C18_FirstFrameAllocated ==
  /\ frame_ops = 1
  /\ frame_last.op = "alloc_frame"
  /\ frame_last.ret = KernelSpace

\* ---- exhaustion ----
\* no frame is free: every bit of the bitmap is set
NoFrameFree == frame_bitmap = {<<0, FrameCount - 1>>}

\* C19: alloc_frame returns 0 if and only if no frame is free: a call made while
\* some frame is free returns the nonzero address of a frame that was free, and a
\* call that returns 0 leaves the bitmap unchanged.
C19_FailsOnlyWhenFull ==
  [][AllocFrameCalled =>
       /\ frame_last'.ret = 0 <=> NoFrameFree
       /\ ~NoFrameFree =>
            /\ frame_last'.ret # 0
            /\ frame_last'.ret % PAGE_SIZE = 0
            /\ frame_last'.ret \div PAGE_SIZE < FrameCount
            /\ ~RunsHas(frame_bitmap, frame_last'.ret \div PAGE_SIZE)
       /\ frame_last'.ret = 0 => frame_bitmap' = frame_bitmap]_vars

\* the same with frame 0 never freed: the failure value is returned exactly when
\* no frame is free
C19_FailsOnlyWhenFullFrameZeroKept ==
  [][(AllocFrameCalled /\ RunsHas(frame_bitmap, 0)) =>
       /\ frame_last'.ret = 0 <=> NoFrameFree
       /\ ~NoFrameFree =>
            /\ frame_last'.ret # 0
            /\ ~RunsHas(frame_bitmap, frame_last'.ret \div PAGE_SIZE)
       /\ frame_last'.ret = 0 => frame_bitmap' = frame_bitmap]_vars

\* alloc_frame has failed with every frame in use
C19_Exhausted ==
  /\ frame_last.op = "alloc_frame"
  /\ frame_last.ret = 0
  /\ NoFrameFree

\* ---- what a call would do from the state reached ----
\* code can run under current_task: the machine is not halted and that code is not
\* stuck
CanCall == halted = "run" /\ current_task \notin spinning

\* the global task list and every ready queue hold in r the tasks they hold now, in
\* the same order
SameLists(r) ==
  /\ Walk(r.tcb, r.task_list_head_ptr, 0) = Walk(tcb, task_list_head_ptr, 0)
  /\ \A q \in Priorities : Walk(r.tcb, r.ready_queues[q], 0) = Walk(tcb, ready_queues[q], 0)

\* the ways task_create can fail: a null name or entry point, no memory for the
\* task_t, no memory for the stack
CreateFailures ==
  {c \in [args_ok : BOOLEAN, mem : {kmalloc_task(live), NULL}, stack_ok : BOOLEAN] :
     ~c.args_ok \/ c.mem = NULL \/ ~c.stack_ok}

\* C21: a task_create that is given a null name or entry point, or whose TCB or
\* stack allocation fails, returns 0, and the global task list, every ready queue,
\* the scheduler counters and the set of live allocations are as before the call.
C21_FailedCreateChangesNothing ==
  CanCall =>
    \A c \in CreateFailures, priority \in PriorityArgs :
      \A r \in {task_create(Begin("task"), c.args_ok, priority, c.mem, c.stack_ok)} :
        ~r.stuck =>
          /\ r.ret = 0
          /\ SameLists(r)
          /\ r.stats = NoCount
          /\ r.live = live

\* a task_create has failed while a created task exists
C21_CreateFailed ==
  /\ last_call.op = "task_create" /\ last_call.returned /\ last_call.ret = 0
  /\ live # {}

\* ---- invalid arguments ----
\* the call that led to r was a no-op: no task created or freed, every task_t, the
\* lists, the current task and the counters as before
NoOp(r) ==
  /\ r.live = live
  /\ \A t \in LiveTasks : r.tcb[t] = tcb[t]
  /\ SameLists(r)
  /\ r.current_task = current_task
  /\ r.stats = NoCount

\* the ids no task has
UnknownIds == {id \in TaskIds \ {0} : TaskWithId(id) = {}}

\* a priority above PRIORITY_CRITICAL
OutOfRange == {PRIORITY_CRITICAL + 1}

\* task_destroy, task_suspend, task_resume and task_set_priority given an id no task
\* has are no-ops when they return
C22_UnknownIdIsNoOp ==
  CanCall =>
    \A id \in UnknownIds :
      \A r \in {task_destroy(Begin("task"), id), task_suspend(Begin("task"), id),
                task_resume(Begin("task"), id)}
               \cup {task_set_priority(Begin("task"), id, p) : p \in PriorityArgs} :
        ~r.stuck => NoOp(r)

\* task_set_priority given a priority out of range is a no-op when it returns
C22_BadPriorityNotSet ==
  CanCall =>
    \A id \in TaskIds, p \in OutOfRange :
      \A r \in {task_set_priority(Begin("task"), id, p)} : ~r.stuck => NoOp(r)

\* C22: an operation given an unknown task id (task_destroy, task_suspend,
\* task_resume, task_set_priority) or an out-of-range priority (task_create,
\* task_set_priority) returns a failure value or is a no-op: it creates no task and
\* changes no task state, list or counter.
C22_InvalidArgumentIsNoOp ==
  /\ C22_UnknownIdIsNoOp
  /\ C22_BadPriorityNotSet
  /\ CanCall =>
       \A p \in OutOfRange :
         \A r \in {task_create(Begin("task"), TRUE, p, kmalloc_task(live), TRUE)} :
           ~r.stuck => (r.ret = 0 /\ NoOp(r))

\* ---- suspend and resume ----
\* the task a lookup of task_id finds now, if it finds a task that exists
Found(task_id) ==
  {ListFind(tcb, task_list_head_ptr, task_id, 0)} \cap LiveTasks

\* the ready queues task t is linked into, in the state r
QueuesIn(r, t) ==
  {q \in Priorities : \E n \in 1..Len(Walk(r.tcb, r.ready_queues[q], 0)) :
                        Walk(r.tcb, r.ready_queues[q], 0)[n] = t}

\* task t is in r as it is now: its state, the queues it is linked into, and the
\* ready and blocked counters
Untouched(r, t) ==
  /\ r.tcb[t].state = tcb[t].state
  /\ QueuesIn(r, t) = QueuesIn(ThisState, t)
  /\ r.stats.ready_tasks = 0
  /\ r.stats.blocked_tasks = 0

\* applied to a task that is not READY or RUNNING, task_suspend leaves it as it is;
\* applied to a task that is not SUSPENDED, task_resume leaves it as it is
C23_OtherStatesUntouched ==
  CanCall =>
    \A id \in TaskIds : \A t \in Found(id) :
      /\ tcb[t].state \notin {TASK_READY, TASK_RUNNING} =>
           Untouched(task_suspend(Begin("task"), id), t)
      /\ tcb[t].state # TASK_SUSPENDED =>
           Untouched(task_resume(Begin("task"), id), t)

\* C23: task_suspend changes a task's state only when it is READY or RUNNING, to
\* SUSPENDED, and then the task is unlinked from its ready queue; task_resume
\* changes it only when it is SUSPENDED, to READY, and then the task is linked into
\* the queue of its priority; applied to a task in any other state they leave its
\* state, its queue membership and the ready and blocked counters unchanged.
C23_SuspendResumeTransitions ==
  /\ C23_OtherStatesUntouched
  /\ CanCall =>
       \A id \in TaskIds : \A t \in Found(id) :
         /\ \A r \in {task_suspend(Begin("task"), id)} :
              r.tcb[t].state # tcb[t].state =>
                /\ tcb[t].state \in {TASK_READY, TASK_RUNNING}
                /\ r.tcb[t].state = TASK_SUSPENDED
                /\ QueuesIn(r, t) = {}
         /\ \A r \in {task_resume(Begin("task"), id)} :
              r.tcb[t].state # tcb[t].state =>
                /\ tcb[t].state = TASK_SUSPENDED
                /\ r.tcb[t].state = TASK_READY
                /\ QueuesIn(r, t) = {r.tcb[t].priority}

\* ---- the idle task ----
\* C24: the idle task, the task_t idle_task_tcb with id 0, is never BLOCKED,
\* SUSPENDED, TERMINATED or freed; task_destroy(0) and task_suspend(0), when they
\* return, return -1 and change nothing; task_exit and task_sleep called while the
\* idle task is current return and change no task, list or counter.
C24_IdleTaskStays ==
  /\ tcb[0].id = 0
  /\ tcb[0].state \in {TASK_READY, TASK_RUNNING}
  /\ 0 \notin live
  /\ CanCall =>
       \A r \in {task_destroy(Begin("task"), 0), task_suspend(Begin("task"), 0)} :
         ~r.stuck => (r.ret = -1 /\ NoOp(r))
  /\ (CanCall /\ current_task = 0) =>
       \A r \in {task_exit(Begin("task"))}
                \cup {task_sleep(Begin("task"), ms) : ms \in 0..MaxSleep} :
         ~r.stuck /\ NoOp(r)

\* task_destroy(0) has returned -1 with the idle task current and a created task
\* in the table
C24_DestroyIdleRefused ==
  /\ last_call = [op |-> "task_destroy", arg |-> 0, returned |-> TRUE, ret |-> -1]
  /\ current_task = 0
  /\ live # {}

\* ---- who frees a lock ----
\* the tasks that have won the test-and-set of spinlock_acquire and have not yet
\* come to the end of their spinlock_release
Acquirers ==
  {t \in LockTasks : pc[t] \in {"set_owner", "count", "read", "write", "check_owner",
                               "clear_owner", "unlock"}}

\* C25: a spinlock_release by a task that is not the recorded owner of a held lock
\* leaves the lock held and its owner unchanged, and a held lock becomes free only
\* by the release of a task that acquired it.
C25_OnlyAcquirerFrees ==
  [][/\ \A t \in LockTasks :
          (pc[t] = "stray_check_owner" /\ pc'[t] # pc[t]
             /\ counter_lock.locked = 1 /\ counter_lock.owner # t) =>
            (counter_lock' = counter_lock /\ pc'[t] = "test_and_set")
     /\ (counter_lock.locked = 1 /\ counter_lock'.locked = 0) =>
          \E t \in Acquirers : pc[t] = "unlock" /\ pc'[t] # "unlock"]_vars

\* the same for the tasks whose id is not 0, the value of an owner field that
\* names nobody
C25_OnlyAcquirerFreesNonIdle ==
  [][(counter_lock.locked = 1 /\ counter_lock'.locked = 0) =>
       \/ \E t \in Acquirers : pc[t] = "unlock" /\ pc'[t] # "unlock"
       \/ pc[0] = "stray_unlock" /\ pc'[0] # "stray_unlock"]_vars

\* ---- krealloc ----
\* what the claim says of r, the heap after krealloc(ptr, n) on the live block ptr
\* with n >= 1
ReallocatedAsClaimed(r, ptr, n) ==
  IF SizeOf(ThisHeap, HeaderOf(ptr)) >= n
  THEN r.ret = ptr /\ r.mem = heap_mem /\ r.live = heap_live
  ELSE IF FitsIn(RoundedUp(n)) # {}
  THEN /\ r.ret # NoBlock
       /\ r.ret \in DOMAIN r.live
       /\ r.live[r.ret] >= n
       /\ ptr \notin DOMAIN r.live
       /\ DOMAIN r.live = (DOMAIN heap_live \ {ptr}) \cup {r.ret}
  ELSE /\ r.ret = NoBlock
       /\ r.live = heap_live
       /\ r.mem = heap_mem

\* C26: krealloc(ptr, n) on a live block returns ptr with the heap unchanged when
\* the block's capacity is >= n; otherwise it returns a new live block of capacity
\* >= n and frees the old block, or, when no free block fits, returns failure with
\* the old block still allocated and the block list unchanged.
C26_ReallocContract ==
  HeapKnown =>
    \A ptr \in LivePointers, n \in ReallocSizes \ {0} :
      \A r \in {krealloc(HeapBegin, ptr, n)} :
        ~r.fault => ReallocatedAsClaimed(r, ptr, n)

\* the same for the sizes whose rounding fits size_t, on a heap that only kmalloc
\* and kfree have worked on
C26_ReallocContractUnwrapped ==
  HeapKnown =>
    \A ptr \in LivePointers, n \in {ReqSmall, ReqLarge, ArenaSize} :
      \A r \in {krealloc(HeapBegin, ptr, n)} :
        ~r.fault /\ ReallocatedAsClaimed(r, ptr, n)

\* ---- kcalloc ----
\* C27: kcalloc(count, size) fails or returns a block whose capacity is at least
\* the product count * size as a number, also when the product exceeds size_t.
C27_CallocCapacity ==
  HeapKnown =>
    \A args \in CallocArgs :
      \A r \in {kcalloc(HeapBegin, args[1], args[2])} :
        ~r.fault =>
          \/ r.ret = NoBlock
          \/ r.ret \in DOMAIN r.live /\ r.live[r.ret] >= args[1] * args[2]

\* the same for the one product that exceeds size_t, 64 * (SizeModulus / 64 + 1)
C27_CallocCapacityOfLargeProduct ==
  HeapKnown =>
    \A r \in {kcalloc(HeapBegin, 64, (SizeModulus \div 64) + 1)} :
      ~r.fault =>
        \/ r.ret = NoBlock
        \/ r.ret \in DOMAIN r.live /\ r.live[r.ret] >= 64 * ((SizeModulus \div 64) + 1)

\* ---- kfree of a pointer outside the arena ----
\* pointers outside [heap_start, heap_end): a header and a word before the arena,
\* its end, and a word, three words and a header behind its end
OutsidePointers ==
  {heap_start - HeaderSize, heap_start - 8, heap_end, heap_end + 8, heap_end + 24,
   heap_end + HeaderSize}

\* the last four words of the arena, which kfree(heap_end) reads as a header
TailWords == {heap_end - HeaderSize + 8 * i : i \in 0..3}

\* what a word of the arena that nothing has written can hold
GarbageValues == {0, heap_start}

\* the heap with its unwritten tail words holding the values of g
Uninitialised(h, g) ==
  [h EXCEPT !.mem = [a \in HeapWords |->
                       IF a \in TailWords /\ @[a] = UNINIT THEN g[a] ELSE @[a]]]

\* every header of the block list is what it was before the call
HeadersKept(r) ==
  \A i \in 1..Len(BlockList) :
    \A a \in {BlockList[i] + 8 * j : j \in 0..3} : r.mem[a] = heap_mem[a]

\* C28: kfree(ptr) for any ptr outside [heap_start, heap_end), pointers less than
\* one header size past either end included, changes no block header, free flag
\* or link.
C28_OutsideFreeIsNoOp ==
  HeapKnown =>
    \A ptr \in OutsidePointers, g \in [TailWords -> GarbageValues] :
      \A r \in {kfree(Uninitialised(HeapBegin, g), ptr)} :
        ~r.fault => HeadersKept(r)

\* the same for the pointers whose header address ptr - HeaderSize is outside the
\* arena too: the call changes nothing at all
C28_FarOutsideFreeIsNoOp ==
  HeapKnown =>
    \A ptr \in {p \in OutsidePointers : p < heap_start \/ p >= heap_end + HeaderSize} :
      \A r \in {kfree(HeapBegin, ptr)} :
        ~r.fault /\ r.mem = heap_mem /\ r.live = heap_live

\* ---- scheduler_tick ----
\* the tick can arrive: the kernel runs and there is a current task
CanTick == halted = "run" /\ current_task # NULL

\* the tick's state when timer_callback has counted it
Ticked == [Begin("irq") EXCEPT !.ticks = @ + 1]

\* the current task's slice is used up, or a READY task has a strictly higher
\* priority than the current task
SliceOverOrHigherReady(s) ==
  \/ s.tcb[s.current_task].time_slice_remaining = 0
  \/ \E t \in Tasks(s) : /\ s.tcb[t].state = TASK_READY
                         /\ s.tcb[t].priority > s.tcb[s.current_task].priority

\* C29: scheduler_tick reschedules exactly when, after waking the sleepers and
\* decrementing the running task's remaining slice, that slice is zero or some
\* READY task has strictly higher priority than the current task, whatever the
\* two priorities are.
C29_TickReschedulesExactlyWhen ==
  CanTick =>
    \A s4 \in {WakeAndDecrement(Ticked)} :
      ~s4.stuck => (MustPreempt(s4) <=> SliceOverOrHigherReady(s4))

\* one direction of it: a tick that finds the slice used up or a READY task of
\* higher priority reschedules
C29_TickReschedulesWhen ==
  CanTick =>
    \A s4 \in {WakeAndDecrement(Ticked)} :
      ~s4.stuck => (SliceOverOrHigherReady(s4) => MustPreempt(s4))

\* the other direction: a tick reschedules only then
C29_TickReschedulesOnlyWhen ==
  CanTick =>
    \A s4 \in {WakeAndDecrement(Ticked)} :
      ~s4.stuck => (MustPreempt(s4) => SliceOverOrHigherReady(s4))

\* ---- schedule_next_task ----
\* schedule_next_task as task_yield calls it: s is the state it starts from, r the
\* state it leaves, next_task the task it selected

\* the selected task is the current one, and that is RUNNING
SameTask(s, next_task) ==
  next_task = s.current_task /\ s.tcb[s.current_task].state = TASK_RUNNING

\* the call changed no state and no counter and invoked no context switch
NothingSwitched(s, r) ==
  /\ r.tcb = s.tcb /\ r.current_task = s.current_task /\ r.ready_queues = s.ready_queues
  /\ r.stats = NoCount /\ r.switches = 0

\* the outgoing task, if RUNNING, became READY; the incoming one RUNNING and current
Switched(s, r, next_task) ==
  /\ s.tcb[s.current_task].state = TASK_RUNNING => r.tcb[s.current_task].state = TASK_READY
  /\ r.tcb[next_task].state = TASK_RUNNING
  /\ r.current_task = next_task

\* the calls task_yield makes from this state, as <<state before, state after>>
YieldCalls ==
  {<<s, schedule_next_task(s)>> : s \in {ResetSlice(Begin("task"))}}

\* C30: when schedule_next_task selects the task that is already current and
\* RUNNING it changes no state and no counter and invokes no context switch;
\* otherwise the outgoing task, if RUNNING, becomes READY, the incoming task becomes
\* RUNNING and current, and every increment of the context_switches counter is
\* accompanied by exactly one invocation of the context-switch primitive.
C30_ScheduleNextTask ==
  CanCall =>
    \A c \in YieldCalls :
      ~c[2].stuck =>
        IF SameTask(c[1], c[2].selected.task)
        THEN NothingSwitched(c[1], c[2])
        ELSE /\ Switched(c[1], c[2], c[2].selected.task)
             /\ c[2].switches = c[2].stats.context_switches

\* the claim without its last part: the states are as claimed
C30_StatesAsClaimed ==
  CanCall =>
    \A c \in YieldCalls :
      ~c[2].stuck =>
        IF SameTask(c[1], c[2].selected.task)
        THEN NothingSwitched(c[1], c[2])
        ELSE Switched(c[1], c[2], c[2].selected.task)

\* the last part alone: as many context switches as the counter counts
C30_OneSwitchPerCount ==
  CanCall =>
    \A c \in YieldCalls :
      ~c[2].stuck => c[2].switches = c[2].stats.context_switches

\* ---- the order of selection within a priority level ----
\* the task a yield or a slice expiry selects now: the head of the highest
\* non-empty ready queue
TopHead == find_next_ready_task(ThisState)

\* the highest level whose ready queue has a head
TopLevel == CHOOSE p \in Priorities : ready_queues[p] = TopHead /\ \A q \in Priorities : q > p => ready_queues[q] = NULL

\* what each call that can be made now leaves behind
TaskCallResults ==
  LET s == Begin("task") IN
    {task_create(s, TRUE, c[1], c[2], TRUE) :
       c \in PriorityArgs \X ({kmalloc_task(live)} \ {NULL})}
    \cup {task_destroy(s, id) : id \in TaskIds}
    \cup {task_suspend(s, id) : id \in TaskIds}
    \cup {task_resume(s, id) : id \in TaskIds}
    \cup {task_set_priority(s, c[1], c[2]) : c \in TaskIds \X PriorityArgs}
    \cup {task_sleep(s, ms) : ms \in 0..MaxSleep}
    \cup {task_exit(s), task_yield(s)}

CallResults ==
  (IF CanCall THEN TaskCallResults ELSE {})
  \cup (IF CanTick THEN {timer_callback(Begin("irq"))} ELSE {})

\* the task is after the call what it was before: the same task_t, READY or
\* RUNNING, of the same priority
StaysReady(r, t) ==
  /\ t \in LiveTasks /\ t \in Tasks(r)
  /\ r.tcb[t].id = tcb[t].id /\ r.tcb[t].priority = tcb[t].priority
  /\ tcb[t].state \in {TASK_READY, TASK_RUNNING}
  /\ r.tcb[t].state \in {TASK_READY, TASK_RUNNING}

\* a successful task_create has put its task at the head of its level's queue
CreatedIsHead ==
  last_call.op = "task_create" /\ last_call.returned /\ last_call.ret # 0 =>
    \A t \in TaskWithId(last_call.ret) : ready_queues[tcb[t].priority] = t

\* no call but one that inserts at its level or above takes the selected task's
\* place away while it stays READY or RUNNING
HeadKept ==
  TopHead # NULL =>
    \A r \in CallResults :
      StaysReady(r, TopHead) /\ (\A p \in r.inserted : p < TopLevel)
        => find_next_ready_task(r) = TopHead

\* C31: among the tasks of the highest non-empty priority level the one most
\* recently inserted into the ready queue is the one selected, and selection does
\* not rotate the queue: while that task stays READY or RUNNING and nothing is
\* inserted at its level or above, every yield and slice expiry selects the same
\* task again.
C31_HeadFirstNoRotation == CreatedIsHead /\ HeadKept

\* the first half alone
C31_CreatedIsHead == CreatedIsHead

\* the second half alone
C31_HeadKept == HeadKept

\* every task linked in a ready queue has that queue's priority
QueuesOrdered ==
  \A q \in Priorities : \A t \in LiveTasks : Linked(q, t) => tcb[t].priority = q

\* the second half in the states where every queue holds tasks of its own level
C31_HeadKeptInOrderedQueues == QueuesOrdered => HeadKept

\* ---- the statistics snapshot ----
\* the number of tasks of T in a state
InState(T, state) == Cardinality({t \in T : tcb[t].state = state})

\* the counters say what holds of the tasks of T, and none has wrapped below zero
Accurate(T) ==
  /\ scheduler_stats.total_tasks = Cardinality(live)
  /\ scheduler_stats.running_tasks = InState(T, TASK_RUNNING)
  /\ scheduler_stats.ready_tasks = InState(T, TASK_READY)
  /\ scheduler_stats.blocked_tasks = InState(T, TASK_BLOCKED)
  /\ \A f \in DOMAIN scheduler_stats : scheduler_stats[f] <= NSlots + 1

\* C32: in every reachable state the statistics snapshot is accurate: total_tasks
\* is the number of created and not destroyed tasks, running_tasks the number of
\* tasks in RUNNING, ready_tasks the number in READY, blocked_tasks the number in
\* BLOCKED, and no counter ever wraps below zero.
C32_StatsAccurate == Accurate(LiveTasks)

\* the same with the idle task, which no task_create made, left out of the count
C32_StatsAccurateOfCreated == Accurate(live)

\* the part of it on total_tasks
C32_TotalAccurate == scheduler_stats.total_tasks = Cardinality(live)

\* the part of it on wrapping
C32_NoCounterWraps == \A f \in DOMAIN scheduler_stats : scheduler_stats[f] <= NSlots + 1

\* ---- spinlock_try_acquire ----
\* task t is inside spinlock_try_acquire
Trying(t) == pc[t] \in {"try_set_owner", "try_count", "try_true", "try_false"}

\* a task inside the call can take its next step whatever the others do
TryNeverWaits ==
  \A t \in LockTasks :
    Trying(t) => ENABLED (try_set_owner(t) \/ try_count(t) \/ try_returned(t))

\* a call about to return true has the lock held with the caller as owner
TryTrueHolds ==
  \A t \in LockTasks :
    pc[t] = "try_true" => counter_lock.locked = 1 /\ counter_lock.owner = t

\* a call that returns false was made on a held lock and has changed nothing of it;
\* one made on a free lock does not return false
TryFalseKeeps ==
  \A t \in LockTasks :
    pc[t] = "test_and_set" /\ pc'[t] \in {"try_false", "try_set_owner"} =>
      IF counter_lock.locked = 0 THEN pc'[t] = "try_set_owner"
      ELSE pc'[t] = "try_false" /\ counter_lock' = counter_lock

\* C33: spinlock_try_acquire never waits: on a free lock it returns true with the
\* lock held and the caller recorded as owner; on a held lock it returns false and
\* leaves the locked flag, the owner and the acquisition count unchanged.
C33_TryAcquire == [][TryNeverWaits' /\ TryTrueHolds' /\ TryFalseKeeps]_vars

\* one task has the lock from a call that returned true while the other's call
\* returns false
C33_OneTrueOneFalse ==
  \E t, u \in LockTasks : pc[t] = "try_true" /\ pc[u] = "try_false"

\* ---- the calls that take scheduler_lock ----
\* a task can make a call and no lock is held
NoLockHeld == CanCall /\ task_list_lock.locked = 0 /\ scheduler_lock.locked = 0

\* the call came back, and never asked for a lock it was holding
Completes(r) == ~r.stuck /\ \A n \in r.nested : n[1] # n[2]

\* C34: each of task_suspend, task_resume, task_sleep and task_exit, called in a
\* state where no lock is held, runs to completion: it never tries to acquire a
\* spinlock that the calling task already holds.
C34_CallsComplete ==
  NoLockHeld =>
    \A r \in {task_suspend(Begin("task"), id) : id \in TaskIds}
             \cup {task_resume(Begin("task"), id) : id \in TaskIds}
             \cup {task_sleep(Begin("task"), ms) : ms \in 0..MaxSleep}
             \cup {task_exit(Begin("task"))} :
      Completes(r)

\* the same for each of the four calls alone
C34_SuspendCompletes ==
  NoLockHeld => \A id \in TaskIds : Completes(task_suspend(Begin("task"), id))

C34_ResumeCompletes ==
  NoLockHeld => \A id \in TaskIds : Completes(task_resume(Begin("task"), id))

C34_SleepCompletes ==
  NoLockHeld => \A ms \in 0..MaxSleep : Completes(task_sleep(Begin("task"), ms))

C34_ExitCompletes ==
  NoLockHeld => Completes(task_exit(Begin("task")))

\* ---- the timer interrupt inside an operation ----
\* the locks of the scheduler
SchedulerLocks == {"task_list_lock", "scheduler_lock"}

\* the current task inside an operation, right behind its spinlock_acquire of L
\* (task_list_lock: in task_list_add, task_list_remove and task_get_by_id;
\* scheduler_lock: in add_to_ready_queue and remove_from_ready_queue)
Holding(L) == spinlock_acquire(Begin("task"), L)

\* the timer interrupt arrives there: its handler runs on the interrupted state
Interrupted(mid) == [mid EXCEPT !.ctx = "irq", !.held = {}]

\* C35: a timer interrupt that runs scheduler_tick at any point of a task-level
\* operation, also while the interrupted task holds task_list_lock or
\* scheduler_lock, completes: the tick handler never spins forever on a lock held
\* by the task it interrupted.
C35_TickCompletes ==
  CanCall /\ CanTick =>
    \A L \in SchedulerLocks :
      \A mid \in {Holding(L)} :
        ~mid.stuck => \A r \in {timer_callback(Interrupted(mid))} : ~r.stuck

\* ---- task_set_priority ----
\* in r every task linked in a ready queue has that queue's priority
OrderedIn(r) ==
  \A q \in Priorities : \A t \in Tasks(r) : q \in QueuesIn(r, t) => r.tcb[t].priority = q

\* the other tasks are in r where they are now, queue by queue and in the same order
OthersKept(r, task) ==
  \A q \in Priorities :
    Without(Walk(r.tcb, r.ready_queues[q], 0), task)
      = Without(Walk(tcb, ready_queues[q], 0), task)

\* the task_set_priority calls with a valid priority that find their task and
\* return, as <<task, state left>>, made where the queues are in order
SetPriorityCalls(states) ==
  IF CanCall /\ OrderedIn(ThisState)
  THEN {c \in {<<t, task_set_priority(Begin("task"), tcb[t].id, p)>> :
                 t \in {u \in LiveTasks : tcb[u].state \in states /\ u \in Found(tcb[u].id)},
                 p \in PriorityArgs} : ~c[2].stuck}
  ELSE {}

AllStates == {TASK_RUNNING, TASK_READY, TASK_BLOCKED, TASK_SUSPENDED, TASK_TERMINATED}

\* C36: after task_set_priority(id, p) with a valid p on a task in any state, every
\* task linked in ready queue q has priority q, and the membership and order of all
\* other tasks in every ready queue are unchanged.
C36_SetPriorityKeepsQueues ==
  \A c \in SetPriorityCalls(AllStates) : OrderedIn(c[2]) /\ OthersKept(c[2], c[1])

\* the first half alone
C36_QueuesOrderedAfter ==
  \A c \in SetPriorityCalls(AllStates) : OrderedIn(c[2])

\* the second half alone
C36_OthersKept ==
  \A c \in SetPriorityCalls(AllStates) : OthersKept(c[2], c[1])

\* the claim for the tasks that are READY
C36_ReadyTaskRequeued ==
  \A c \in SetPriorityCalls({TASK_READY}) : OrderedIn(c[2]) /\ OthersKept(c[2], c[1])

\* ---- references to a freed task_t ----
\* the tasks a list links, as a set
Members(from) == {Walk(tcb, from, 0)[n] : n \in 1..Len(Walk(tcb, from, 0))}

\* a task_destroy call has just freed a task_t
DestroyReturned ==
  last_call.op = "task_destroy" /\ last_call.returned /\ last_call.ret = 0

\* C37: the current-task reference always designates a live task control block:
\* after task_destroy of any id, the id of the currently running task included,
\* neither the current-task reference, nor the global list, nor any ready queue
\* refers to the freed TCB.
C37_NoReferenceToFreed ==
  /\ current_task \in LiveTasks
  /\ DestroyReturned =>
       /\ Members(task_list_head_ptr) \subseteq LiveTasks
       /\ \A q \in Priorities : Members(ready_queues[q]) \subseteq LiveTasks

\* the part of it on the current-task reference
C37_CurrentIsLive == current_task \in LiveTasks

\* the part of it on the lists, for a task_destroy of a task that is not current
C37_ListsHoldLiveTasks ==
  DestroyReturned /\ current_task \in LiveTasks =>
    /\ Members(task_list_head_ptr) \subseteq LiveTasks
    /\ \A q \in Priorities : Members(ready_queues[q]) \subseteq LiveTasks

\* ---- the RUNNING task ----
\* the tasks that are RUNNING: the idle task and the task_t's that task_create has
\* given an id (a task_t it has only zeroed is no task yet)
RunningTasks ==
  {t \in LiveTasks : tcb[t].state = TASK_RUNNING /\ (t = 0 \/ tcb[t].id # 0)}

BelowHintUsed ==
  next_free_frame = 0
    \/ (RunsHas(frame_bitmap, 0) /\ RunAt(frame_bitmap, 0)[2] >= next_free_frame - 1)

\* alloc_frame, called now, finds nothing in its second loop, and the frame it
\* takes, if it takes one, is the lowest frame whose bit is clear
TakesLowest ==
  /\ FirstClear(FrameBegin, 0, next_free_frame - 1) = NoFrame
  /\ \A r \in {alloc_frame(FrameBegin)} :
       r.frame # NoFrame => r.frame = FirstClear(FrameBegin, 0, FrameCount - 1)

\* C39: after init_paging and any sequence of alloc_frame and free_frame calls,
\* every frame whose index is below the next-free hint is marked used; hence a
\* successful alloc_frame always returns the lowest-addressed free frame and the
\* wrap-around scan never finds a free frame.
C39_HintBelowAllUsed == BelowHintUsed /\ TakesLowest

\* alloc_frame has taken a frame that was freed while frames above it are in use
C39_LowFrameReused ==
  /\ frame_last.op = "alloc_frame" /\ frame_last.frame # NoFrame
  /\ \E r \in frame_bitmap : r[1] > frame_last.frame + 1

\* ---- the capacity kmalloc hands out ----
\* sizes whose rounding up to a multiple of 8 stays below the modulus of size_t
UnwrappedSizes == {1, 7, 8, ReqSmall, ReqLarge, ArenaSize, SIZE_MAX - 8, SIZE_MAX - 7}

\* the seven sizes whose rounding wraps to 0
WrappedSizes == (SIZE_MAX - 6)..SIZE_MAX

\* kmalloc(size), called now, fails or hands out a block of capacity >= size
EnoughFor(size) ==
  \A r \in {kmalloc(HeapBegin, size)} :
    ~r.fault => r.ret = NoBlock \/ (r.ret \in DOMAIN r.live /\ r.live[r.ret] >= size)

\* C40: every successful kmalloc(size) returns a block whose capacity is at least
\* size, for every size representable in size_t, the sizes within 7 of the maximum,
\* where rounding up to a multiple of 8 wraps around, included; kmalloc(0) fails.
C40_CapacityAtLeastSize ==
  HeapKnown =>
    /\ \A size \in UnwrappedSizes \cup WrappedSizes : EnoughFor(size)
    /\ kmalloc(HeapBegin, 0).ret = NoBlock

\* the same without the sizes whose rounding wraps
C40_CapacityAtLeastSizeUnwrapped ==
  HeapKnown =>
    /\ \A size \in UnwrappedSizes : EnoughFor(size)
    /\ kmalloc(HeapBegin, 0).ret = NoBlock /\ kmalloc(HeapBegin, 0).mem = heap_mem
====
